---- MODULE Spec2Model ----
(***************************************************************************)
(* Model of the OpenSearch DevTools extension core:                        *)
(*   - the .osdev request parser      (src/src/language/parser.ts)         *)
(*   - the query executor             (src/src/execution/queryExecutor.ts) *)
(*   - the result formatter, the auth headers (basicAuth.ts, awsAuth.ts)   *)
(*     and the output panel, each as single calls                          *)
(*   - the connection manager over the settings and the secret storage     *)
(*     (src/src/connections/connectionManager.ts), with overlapping calls  *)
(* Text is modelled as sequences of one-character strings, so that trim,   *)
(* split, join, the request-line pattern and JSON validation are computed  *)
(* rather than assumed.                                                    *)
(***************************************************************************)
EXTENDS Integers, Sequences, FiniteSets, TLC

\* ------------------------------------------------------------------ bounds
\* Longest document, in lines, the parser is run on.
MaxLines == 4
\* Most &-separated pairs in a query string given to getQueryParams.
MaxPairs == 3
\* Longest batch handed to executeRequests.
MaxBatch == 2
\* Most 'data' events (chunks) of one response.
MaxChunks == 2
\* Most calls of OutputPanel methods on one panel.
MaxPanelCalls == 3
\* Most calls of ConnectionManager methods on one store.
MaxConnCalls == 3

\* -------------------------------------------------------------------- state
VARIABLES
  content,         \* parseOsdevFile: the text being parsed
  lines,           \* content.split('\n')
  i,               \* loop index (0-based, as in the code)
  currentRequest,  \* the open request {method, path, startLine} or Null
  bodyLines,       \* body lines accumulated for the open request
  requests,        \* ParsedRequest[] emitted so far
  errors,          \* ParseError[] emitted so far
  ppc              \* "idle" | "loop" | "done" (returned)

pvars == <<content, lines, i, currentRequest, bodyLines, requests, errors, ppc>>

VARIABLES
  ereqs,     \* executeRequests: the requests argument
  eopts,     \* the options argument
  bi,        \* number of executeRequest calls started (the for..of position)
  epc,       \* "idle" | "loop" | "auth" | "await" | "ret" | "done" | "rejected"
  request,   \* executeRequest: the request argument of the call in progress
  ret,       \* how the call in progress ended: [kind, value], or Null
  results,   \* executeRequests: results collected so far
  promise,   \* per call: the Promise created at 'new Promise<QueryResult>'
  conn,      \* per call: the http.ClientRequest and its response
  cause,     \* per call: what decided its result (history)
  first,     \* per call: the result built by the first handler to run (history)
  execLog    \* per returned call: the request it was given and its result (history)

evars == <<ereqs, eopts, bi, epc, request, ret, results, promise, conn, cause, first, execLog>>

VARIABLES
  ufn,       \* which function is called: "parseRequestLine" | "getQueryParams" | ...
  uarg,      \* its argument (a line, a path), or a record of its arguments
  uret,      \* what the call returned, or Null before it has
  upc,       \* "idle" | "call" | "done"
  lastOutput, \* OutputPanel: the text appended to the panel since it was cleared
  appended,  \* OutputPanel: the texts given to append since the last clear (history)
  pcalls     \* OutputPanel: number of calls of its methods so far

uvars == <<ufn, uarg, uret, upc, lastOutput, appended, pcalls>>

VARIABLES
  storedConnections,   \* settings: osdev.connections (StoredConnection[])
  activeConnectionId,  \* settings: osdev.activeConnectionId (0 for '')
  secrets,             \* SecretStorage: the entries [key, value]
  ccalls               \* the ConnectionManager calls made so far, each with
                       \* its position and locals

cvars == <<storedConnections, activeConnectionId, secrets, ccalls>>

vars == <<pvars, evars, uvars, cvars>>

\* ------------------------------------------------------------- text helpers
\* null / undefined; a record, so that it compares with the records it stands in for
Null == [null |-> TRUE]

\* Characters String.prototype.trim() strips and the pattern's \s matches.
WS == {" ", "\t", "\n", "\r"}

RECURSIVE TrimLeft(_)
TrimLeft(s) ==
  IF s = <<>> THEN s
  ELSE IF Head(s) \in WS THEN TrimLeft(Tail(s)) ELSE s

RECURSIVE TrimRight(_)
TrimRight(s) ==
  IF s = <<>> THEN s
  ELSE IF s[Len(s)] \in WS THEN TrimRight(SubSeq(s, 1, Len(s) - 1)) ELSE s

\* String.prototype.trim()
Trim(s) == TrimRight(TrimLeft(s))

\* Array.prototype.join('\n')
RECURSIVE JoinNl(_)
JoinNl(ls) ==
  IF ls = <<>> THEN <<>>
  ELSE IF Len(ls) = 1 THEN ls[1]
  ELSE ls[1] \o <<"\n">> \o JoinNl(Tail(ls))

\* Index of the first "\n" of s at or after position pos, 0 when there is none.
RECURSIVE FindNl(_, _)
FindNl(s, pos) ==
  IF pos > Len(s) THEN 0
  ELSE IF s[pos] = "\n" THEN pos ELSE FindNl(s, pos + 1)

\* String.prototype.split('\n'): always at least one (possibly empty) piece.
RECURSIVE SplitNl(_)
SplitNl(s) ==
  LET k == FindNl(s, 1) IN
  IF k = 0 THEN <<s>>
  ELSE <<SubSeq(s, 1, k - 1)>> \o SplitNl(SubSeq(s, k + 1, Len(s)))

LowerChars == <<"a","b","c","d","e","f","g","h","i","j","k","l","m",
                "n","o","p","q","r","s","t","u","v","w","x","y","z">>
UpperChars == <<"A","B","C","D","E","F","G","H","I","J","K","L","M",
                "N","O","P","Q","R","S","T","U","V","W","X","Y","Z">>

LowerSet == {LowerChars[k] : k \in 1..26}
UpperOf == [c \in LowerSet |-> UpperChars[CHOOSE k \in 1..26 : LowerChars[k] = c]]

\* String.prototype.toUpperCase(), one character
UpperChar(c) == IF c \in LowerSet THEN UpperOf[c] ELSE c

ToUpperCase(s) == [k \in 1..Len(s) |-> UpperChar(s[k])]

\* ------------------------------------------------------------ JSON.parse
\* A recogniser for the JSON grammar (RFC 8259) that JSON.parse accepts:
\* objects, arrays, strings with the simple escapes, numbers and the three
\* literals. Each Parse* operator takes the text and a start index and returns
\* the index just after what it recognised, or 0 when the text is malformed.
Digits == {"0","1","2","3","4","5","6","7","8","9"}

At(s, pos) == IF pos \in 1..Len(s) THEN s[pos] ELSE "EOF"

RECURSIVE SkipWs(_, _)
SkipWs(s, pos) == IF At(s, pos) \in WS THEN SkipWs(s, pos + 1) ELSE pos

RECURSIVE ScanDigits(_, _)
ScanDigits(s, pos) == IF At(s, pos) \in Digits THEN ScanDigits(s, pos + 1) ELSE pos

ParseNumber(s, pos) ==
  LET a == IF At(s, pos) = "-" THEN pos + 1 ELSE pos
      b == IF At(s, a) = "0" THEN a + 1
           ELSE IF At(s, a) \in Digits THEN ScanDigits(s, a) ELSE 0
      c == IF b = 0 THEN 0
           ELSE IF At(s, b) = "."
                THEN (IF ScanDigits(s, b + 1) = b + 1 THEN 0 ELSE ScanDigits(s, b + 1))
                ELSE b
      f == IF At(s, c + 1) \in {"+", "-"} THEN c + 2 ELSE c + 1
  IN  IF c = 0 THEN 0
      ELSE IF At(s, c) \in {"e", "E"}
           THEN (IF ScanDigits(s, f) = f THEN 0 ELSE ScanDigits(s, f))
           ELSE c

\* j is just after the opening quote; control characters may not appear raw.
RECURSIVE StringEnd(_, _)
StringEnd(s, j) ==
  IF j > Len(s) THEN 0
  ELSE IF s[j] = "\"" THEN j + 1
  ELSE IF s[j] = "\\"
       THEN (IF At(s, j + 1) \in {"\"", "\\", "/", "b", "f", "n", "r", "t"}
             THEN StringEnd(s, j + 2) ELSE 0)
  ELSE IF s[j] \in {"\n", "\t", "\r"} THEN 0
  ELSE StringEnd(s, j + 1)

ParseLiteral(s, pos, w) ==
  IF pos + Len(w) - 1 <= Len(s) /\ SubSeq(s, pos, pos + Len(w) - 1) = w
  THEN pos + Len(w) ELSE 0

RECURSIVE ParseValue(_, _)
RECURSIVE ParseMembers(_, _)
RECURSIVE ParseElements(_, _)

ParseMembers(s, j) ==
  IF At(s, j) # "\"" THEN 0
  ELSE LET k == StringEnd(s, j + 1)
           c == SkipWs(s, k)
           v == ParseValue(s, SkipWs(s, c + 1))
           n == SkipWs(s, v)
       IN  IF k = 0 THEN 0
           ELSE IF At(s, c) # ":" THEN 0
           ELSE IF v = 0 THEN 0
           ELSE IF At(s, n) = "," THEN ParseMembers(s, SkipWs(s, n + 1))
           ELSE IF At(s, n) = "}" THEN n + 1
           ELSE 0

ParseElements(s, j) ==
  LET v == ParseValue(s, j)
      n == SkipWs(s, v)
  IN  IF v = 0 THEN 0
      ELSE IF At(s, n) = "," THEN ParseElements(s, SkipWs(s, n + 1))
      ELSE IF At(s, n) = "]" THEN n + 1
      ELSE 0

ParseValue(s, pos) ==
  LET c == At(s, pos) IN
  IF c = "{" THEN (IF At(s, SkipWs(s, pos + 1)) = "}" THEN SkipWs(s, pos + 1) + 1
                   ELSE ParseMembers(s, SkipWs(s, pos + 1)))
  ELSE IF c = "[" THEN (IF At(s, SkipWs(s, pos + 1)) = "]" THEN SkipWs(s, pos + 1) + 1
                        ELSE ParseElements(s, SkipWs(s, pos + 1)))
  ELSE IF c = "\"" THEN StringEnd(s, pos + 1)
  ELSE IF c = "-" \/ c \in Digits THEN ParseNumber(s, pos)
  ELSE IF c = "t" THEN ParseLiteral(s, pos, <<"t","r","u","e">>)
  ELSE IF c = "f" THEN ParseLiteral(s, pos, <<"f","a","l","s","e">>)
  ELSE IF c = "n" THEN ParseLiteral(s, pos, <<"n","u","l","l">>)
  ELSE 0

\* TRUE iff JSON.parse(s) returns, FALSE iff it throws a SyntaxError.
JsonParses(s) ==
  LET v == ParseValue(s, SkipWs(s, 1)) IN
  v # 0 /\ SkipWs(s, v) = Len(s) + 1

\* --------------------------------------------------------------- parser.ts
HTTP_METHODS ==
  << [name |-> "GET",    chars |-> <<"G","E","T">>],
     [name |-> "POST",   chars |-> <<"P","O","S","T">>],
     [name |-> "PUT",    chars |-> <<"P","U","T">>],
     [name |-> "DELETE", chars |-> <<"D","E","L","E","T","E">>],
     [name |-> "HEAD",   chars |-> <<"H","E","A","D">>],
     [name |-> "PATCH",  chars |-> <<"P","A","T","C","H">>] >>

\* Length of the run of whitespace (ws = TRUE) or non-whitespace (ws = FALSE)
\* characters of s starting at position pos.
RECURSIVE RunLen(_, _, _)
RunLen(s, pos, ws) ==
  IF pos > Len(s) THEN 0
  ELSE IF (s[pos] \in WS) = ws THEN 1 + RunLen(s, pos + 1, ws) ELSE 0

\* Mutant of REQUEST_LINE_PATTERN: the pattern without its i flag.
REQUEST_LINE_PATTERN_caseSensitive(t) ==
  LET ms == {k \in 1..Len(HTTP_METHODS) :
               /\ Len(t) >= Len(HTTP_METHODS[k].chars)
               /\ SubSeq(t, 1, Len(HTTP_METHODS[k].chars)) = HTTP_METHODS[k].chars}
      ok(k) == LET a  == Len(HTTP_METHODS[k].chars) + 1
                   w  == RunLen(t, a, TRUE)
                   p  == RunLen(t, a + w, FALSE)
                   tl == RunLen(t, a + w + p, TRUE)
               IN  w >= 1 /\ p >= 1 /\ a + w + p + tl = Len(t) + 1
      good == {k \in ms : ok(k)}
  IN  IF good = {} THEN Null
      ELSE LET k == CHOOSE x \in good : \A y \in good : x <= y
               a == Len(HTTP_METHODS[k].chars) + 1
               w == RunLen(t, a, TRUE)
               p == RunLen(t, a + w, FALSE)
           IN  [m1 |-> SubSeq(t, 1, a - 1), m2 |-> SubSeq(t, a + w, a + w + p - 1)]

\* t.match(/^(GET|POST|PUT|DELETE|HEAD|PATCH)\s+(\S+)\s*$/pos): the two groups
\* (method token as written, path), or Null when t does not match.
REQUEST_LINE_PATTERN(t) ==
  LET ms == {k \in 1..Len(HTTP_METHODS) :
               /\ Len(t) >= Len(HTTP_METHODS[k].chars)
               /\ ToUpperCase(SubSeq(t, 1, Len(HTTP_METHODS[k].chars)))
                    = HTTP_METHODS[k].chars}
      \* an alternative matches only if the rest of the pattern matches after it
      ok(k) == LET a  == Len(HTTP_METHODS[k].chars) + 1
                   w  == RunLen(t, a, TRUE)
                   p  == RunLen(t, a + w, FALSE)
                   tl == RunLen(t, a + w + p, TRUE)
               IN  w >= 1 /\ p >= 1 /\ a + w + p + tl = Len(t) + 1
      good == {k \in ms : ok(k)}
  IN  IF good = {} THEN Null
      ELSE LET k == CHOOSE x \in good : \A y \in good : x <= y
               a == Len(HTTP_METHODS[k].chars) + 1
               w == RunLen(t, a, TRUE)
               p == RunLen(t, a + w, FALSE)
           IN  [m1 |-> SubSeq(t, 1, a - 1), m2 |-> SubSeq(t, a + w, a + w + p - 1)]

\* HTTP_METHODS.includes(value.toUpperCase())
isHttpMethod(value) ==
  \E k \in 1..Len(HTTP_METHODS) : HTTP_METHODS[k].chars = ToUpperCase(value)

isRequestLine(line) == REQUEST_LINE_PATTERN(Trim(line)) # Null

isComment(line) == LET t == Trim(line) IN Len(t) >= 1 /\ t[1] = "#"

isBlankLine(line) == Trim(line) = <<>>

\* The HttpMethod whose spelling is the given (upper-case) text.
MethodNamed(cs) ==
  HTTP_METHODS[CHOOSE k \in 1..Len(HTTP_METHODS) : HTTP_METHODS[k].chars = cs].name

parseRequestLine(line) ==
  LET match == REQUEST_LINE_PATTERN(Trim(line)) IN
  IF match = Null THEN Null
  ELSE [method |-> MethodNamed(ToUpperCase(match.m1)), path |-> match.m2]

\* validateJsonBody(body).valid
validateJsonBody(body) ==
  IF Trim(body) = <<>> THEN TRUE ELSE JsonParses(body)

\* Lines the documents are assembled from: request lines (one lower-case,
\* with surrounding whitespace), a comment, a blank line, JSON fragments
\* ("{" and "}" form a valid body together and an invalid one alone),
\* a bare method token and a // line.
SampleLines ==
  { <<"G","E","T"," ","/","a">>,
    <<" ","p","o","s","t"," ","/","b"," ">>,
    <<"#"," ","c">>,
    <<>>,
    <<"{">>,
    <<"}">>,
    <<"G","E","T">>,
    <<"/","/","c">> }

Docs == UNION {[1..n -> SampleLines] : n \in 0..MaxLines}

Contents == {JoinNl(d) : d \in Docs}

\* The line number finalizeRequest reports for an invalid body.
ErrorLine(cur) == cur.startLine + 1

\* Mutant of finalizeRequest: the span of a request ends at its last body
\* line.
finalizeRequest_endAtBody(cur, bl, reqs, errs, endLine) ==
  IF cur = Null THEN [requests |-> reqs, errors |-> errs]
  ELSE LET body == Trim(JoinNl(bl))
           emitted == [method    |-> cur.method,
                       path      |-> cur.path,
                       startLine |-> cur.startLine,
                       endLine   |-> cur.startLine + Len(bl),
                       hasBody   |-> body # <<>>,
                       body      |-> body]
       IN  [requests |-> Append(reqs, emitted),
            errors   |-> IF body # <<>> /\ ~validateJsonBody(body)
                         THEN Append(errs, [message |-> <<"Invalid JSON body: ", "SyntaxError">>,
                                            line    |-> ErrorLine(cur)])
                         ELSE errs]

\* Mutant of finalizeRequest: the joined body lines are not trimmed.
finalizeRequest_noTrim(cur, bl, reqs, errs, endLine) ==
  IF cur = Null THEN [requests |-> reqs, errors |-> errs]
  ELSE LET body == JoinNl(bl)
           emitted == [method    |-> cur.method,
                       path      |-> cur.path,
                       startLine |-> cur.startLine,
                       endLine   |-> endLine,
                       hasBody   |-> body # <<>>,
                       body      |-> body]
       IN  [requests |-> Append(reqs, emitted),
            errors   |-> IF body # <<>> /\ ~validateJsonBody(body)
                         THEN Append(errs, [message |-> <<"Invalid JSON body: ", "SyntaxError">>,
                                            line    |-> ErrorLine(cur)])
                         ELSE errs]

\* Mutant of finalizeRequest: a request whose body is not valid JSON is
\* reported as an error and not emitted.
finalizeRequest_dropInvalid(cur, bl, reqs, errs, endLine) ==
  IF cur = Null THEN [requests |-> reqs, errors |-> errs]
  ELSE LET body == Trim(JoinNl(bl))
           emitted == [method    |-> cur.method,
                       path      |-> cur.path,
                       startLine |-> cur.startLine,
                       endLine   |-> endLine,
                       hasBody   |-> body # <<>>,
                       body      |-> body]
       IN  IF body # <<>> /\ ~validateJsonBody(body)
           THEN [requests |-> reqs,
                 errors   |-> Append(errs, [message |-> <<"Invalid JSON body: ", "SyntaxError">>,
                                            line    |-> ErrorLine(cur)])]
           ELSE [requests |-> Append(reqs, emitted), errors |-> errs]

\* finalizeRequest(endLine): the request and error lists after it ran.
\* (It also clears currentRequest and bodyLines; the actions do that.)
finalizeRequest(cur, bl, reqs, errs, endLine) ==
  IF cur = Null THEN [requests |-> reqs, errors |-> errs]
  ELSE LET body == Trim(JoinNl(bl))
           emitted == [method    |-> cur.method,
                       path      |-> cur.path,
                       startLine |-> cur.startLine,
                       endLine   |-> endLine,
                       hasBody   |-> body # <<>>,
                       body      |-> body]
       IN  [requests |-> Append(reqs, emitted),
            errors   |-> IF body # <<>> /\ ~validateJsonBody(body)
                         THEN Append(errs, [message |-> <<"Invalid JSON body: ", "SyntaxError">>,
                                            line    |-> ErrorLine(cur)])
                         ELSE errs]

\* Mutant of PrevLine: the closing request line itself is taken as the end.
PrevLine_same(k) == k

\* The end line given to a request closed by the request line at index k.
PrevLine(k) == k - 1

CurLine == lines[i + 1]

ParseInit ==
  /\ content \in Contents
  /\ lines = SplitNl(content)
  /\ i = 0
  /\ currentRequest = Null
  /\ bodyLines = <<>>
  /\ requests = <<>>
  /\ errors = <<>>
  /\ ppc = "loop"

ParseIdle ==
  /\ content = <<>>
  /\ lines = <<>>
  /\ i = 0
  /\ currentRequest = Null
  /\ bodyLines = <<>>
  /\ requests = <<>>
  /\ errors = <<>>
  /\ ppc = "idle"

\* Mutant of ParseComment: a comment line met while a request is open is kept
\* as body text.
ParseComment_asBody ==
  /\ ppc = "loop" /\ i < Len(lines)
  /\ isComment(CurLine)
  /\ bodyLines' = IF currentRequest # Null THEN Append(bodyLines, CurLine) ELSE bodyLines
  /\ i' = i + 1
  /\ UNCHANGED <<content, lines, currentRequest, requests, errors, ppc>>
  /\ UNCHANGED <<evars, uvars, cvars>>

\* if (isComment(line)) continue;
ParseComment ==
  /\ ppc = "loop" /\ i < Len(lines)
  /\ isComment(CurLine)
  /\ i' = i + 1
  /\ UNCHANGED <<content, lines, currentRequest, bodyLines, requests, errors, ppc>>
  /\ UNCHANGED <<evars, uvars, cvars>>

\* if (isRequestLine(line)) { finalize the open request; open a new one; continue; }
ParseRequestLine ==
  /\ ppc = "loop" /\ i < Len(lines)
  /\ ~isComment(CurLine)
  /\ isRequestLine(CurLine)
  /\ LET fin    == IF currentRequest # Null
                   THEN finalizeRequest(currentRequest, bodyLines, requests, errors, PrevLine(i))
                   ELSE [requests |-> requests, errors |-> errors]
         parsed == parseRequestLine(CurLine)
     IN  /\ requests' = fin.requests
         /\ errors' = fin.errors
         /\ bodyLines' = IF currentRequest # Null THEN <<>> ELSE bodyLines
         /\ currentRequest' =
              IF parsed # Null
              THEN [method |-> parsed.method, path |-> parsed.path, startLine |-> i]
              ELSE Null
  /\ i' = i + 1
  /\ UNCHANGED <<content, lines, ppc>>
  /\ UNCHANGED <<evars, uvars, cvars>>

\* if (currentRequest) { if (bodyLines.length === 0 && isBlankLine(line)) continue; ...
ParseLeadingBlank ==
  /\ ppc = "loop" /\ i < Len(lines)
  /\ ~isComment(CurLine) /\ ~isRequestLine(CurLine)
  /\ currentRequest # Null
  /\ Len(bodyLines) = 0 /\ isBlankLine(CurLine)
  /\ i' = i + 1
  /\ UNCHANGED <<content, lines, currentRequest, bodyLines, requests, errors, ppc>>
  /\ UNCHANGED <<evars, uvars, cvars>>

\* Mutant of ParseBodyLine: blank lines are never kept.
ParseBodyLine_skipBlank ==
  /\ ppc = "loop" /\ i < Len(lines)
  /\ ~isComment(CurLine) /\ ~isRequestLine(CurLine)
  /\ currentRequest # Null
  /\ ~(Len(bodyLines) = 0 /\ isBlankLine(CurLine))
  /\ bodyLines' = IF isBlankLine(CurLine) THEN bodyLines ELSE Append(bodyLines, CurLine)
  /\ i' = i + 1
  /\ UNCHANGED <<content, lines, currentRequest, requests, errors, ppc>>
  /\ UNCHANGED <<evars, uvars, cvars>>

\* ... bodyLines.push(line); }
ParseBodyLine ==
  /\ ppc = "loop" /\ i < Len(lines)
  /\ ~isComment(CurLine) /\ ~isRequestLine(CurLine)
  /\ currentRequest # Null
  /\ ~(Len(bodyLines) = 0 /\ isBlankLine(CurLine))
  /\ bodyLines' = Append(bodyLines, CurLine)
  /\ i' = i + 1
  /\ UNCHANGED <<content, lines, currentRequest, requests, errors, ppc>>
  /\ UNCHANGED <<evars, uvars, cvars>>

\* Mutant of ParseIgnored: text outside any request is reported as an error.
ParseIgnored_reportsError ==
  /\ ppc = "loop" /\ i < Len(lines)
  /\ ~isComment(CurLine) /\ ~isRequestLine(CurLine)
  /\ currentRequest = Null
  /\ errors' = IF isBlankLine(CurLine) THEN errors
               ELSE Append(errors, [message |-> <<"Unexpected text">>, line |-> i])
  /\ i' = i + 1
  /\ UNCHANGED <<content, lines, currentRequest, bodyLines, requests, ppc>>
  /\ UNCHANGED <<evars, uvars, cvars>>

\* No open request, not a comment, not a request line: the loop body does nothing.
ParseIgnored ==
  /\ ppc = "loop" /\ i < Len(lines)
  /\ ~isComment(CurLine) /\ ~isRequestLine(CurLine)
  /\ currentRequest = Null
  /\ i' = i + 1
  /\ UNCHANGED <<content, lines, currentRequest, bodyLines, requests, errors, ppc>>
  /\ UNCHANGED <<evars, uvars, cvars>>

\* Mutant of ParseFinish: the request still open at the end of input is not
\* finalized.
ParseFinish_noFinalize ==
  /\ ppc = "loop" /\ i = Len(lines)
  /\ currentRequest' = Null
  /\ bodyLines' = <<>>
  /\ ppc' = "done"
  /\ UNCHANGED <<content, lines, i, requests, errors>>
  /\ UNCHANGED <<evars, uvars, cvars>>

\* After the loop: if (currentRequest) finalizeRequest(lines.length - 1); return.
ParseFinish ==
  /\ ppc = "loop" /\ i = Len(lines)
  /\ LET fin == IF currentRequest # Null
                THEN finalizeRequest(currentRequest, bodyLines, requests, errors, Len(lines) - 1)
                ELSE [requests |-> requests, errors |-> errors]
     IN  /\ requests' = fin.requests
         /\ errors' = fin.errors
  /\ currentRequest' = IF currentRequest # Null THEN Null ELSE currentRequest
  /\ bodyLines' = IF currentRequest # Null THEN <<>> ELSE bodyLines
  /\ ppc' = "done"
  /\ UNCHANGED <<content, lines, i>>
  /\ UNCHANGED <<evars, uvars, cvars>>

ParseNext ==
  \/ ParseComment
  \/ ParseRequestLine
  \/ ParseLeadingBlank
  \/ ParseBodyLine
  \/ ParseIgnored
  \/ ParseFinish

\* parseOsdevFile as a function of its argument: the loop body applied to the
\* lines in turn, then the final finalizeRequest. st is the tuple of locals
\* [cur (currentRequest), bl (bodyLines), reqs (requests), errs (errors)].
LoopBody(st, line, k) ==
  IF isComment(line) THEN st
  ELSE IF isRequestLine(line)
  THEN LET fin    == IF st.cur # Null
                     THEN finalizeRequest(st.cur, st.bl, st.reqs, st.errs, PrevLine(k))
                     ELSE [requests |-> st.reqs, errors |-> st.errs]
           parsed == parseRequestLine(line)
       IN  [cur  |-> IF parsed # Null
                     THEN [method |-> parsed.method, path |-> parsed.path, startLine |-> k]
                     ELSE Null,
            bl   |-> IF st.cur # Null THEN <<>> ELSE st.bl,
            reqs |-> fin.requests,
            errs |-> fin.errors]
  ELSE IF st.cur # Null
  THEN (IF Len(st.bl) = 0 /\ isBlankLine(line) THEN st
        ELSE [st EXCEPT !.bl = Append(@, line)])
  ELSE st

RECURSIVE RunLoop(_, _, _)
RunLoop(ls, k, st) ==
  IF k >= Len(ls) THEN st ELSE RunLoop(ls, k + 1, LoopBody(st, ls[k + 1], k))

\* After the loop: finalizeRequest(lines.length - 1); return { requests, errors }
ParseEnd(st, last) ==
  IF st.cur # Null
  THEN finalizeRequest(st.cur, st.bl, st.reqs, st.errs, last)
  ELSE [requests |-> st.reqs, errors |-> st.errs]

parseOsdevFile(text) ==
  ParseEnd(RunLoop(SplitNl(text), 0, [cur |-> Null, bl |-> <<>>, reqs |-> <<>>, errs |-> <<>>]),
           Len(SplitNl(text)) - 1)

\* ------------------------------------------- parser.ts: exported helpers
\* Index of the first c in s at or after position pos, 0 when there is none
\* (String.prototype.indexOf, 1-based, with 0 for -1).
RECURSIVE IndexOf(_, _, _)
IndexOf(s, c, pos) ==
  IF pos > Len(s) THEN 0
  ELSE IF s[pos] = c THEN pos ELSE IndexOf(s, c, pos + 1)

\* String.prototype.split(c) for a one-character separator.
RECURSIVE Split(_, _)
Split(s, c) ==
  LET k == IndexOf(s, c, 1) IN
  IF k = 0 THEN <<s>>
  ELSE <<SubSeq(s, 1, k - 1)>> \o Split(SubSeq(s, k + 1, Len(s)), c)

HexDigits == Digits \cup {"A","B","C","D","E","F","a","b","c","d","e","f"}

\* The character of each escape the paths of the model use (%3A, %3D, %26,
\* %61); both hex digits are given in upper case.
EscapeChar(h1, h2) ==
  IF <<h1, h2>> = <<"3", "A">> THEN ":"
  ELSE IF <<h1, h2>> = <<"3", "D">> THEN "="
  ELSE IF <<h1, h2>> = <<"2", "6">> THEN "&"
  ELSE IF <<h1, h2>> = <<"6", "1">> THEN "a"
  ELSE "?"

\* decodeURIComponent(s): [ok, text]; ok = FALSE when it throws a URIError,
\* which it does for a % that is not followed by two hex digits.
RECURSIVE decodeURIComponent(_)
decodeURIComponent(s) ==
  IF s = <<>> THEN [ok |-> TRUE, text |-> <<>>]
  ELSE IF s[1] # "%"
  THEN LET r == decodeURIComponent(Tail(s)) IN
       [ok |-> r.ok, text |-> IF r.ok THEN <<s[1]>> \o r.text ELSE <<>>]
  ELSE IF Len(s) < 3 \/ s[2] \notin HexDigits \/ s[3] \notin HexDigits
  THEN [ok |-> FALSE, text |-> <<>>]
  ELSE LET r == decodeURIComponent(SubSeq(s, 4, Len(s))) IN
       [ok |-> r.ok,
        text |-> IF r.ok THEN <<EscapeChar(UpperChar(s[2]), UpperChar(s[3]))>> \o r.text
                 ELSE <<>>]

\* Position of key among the entries of Map m, 0 when it is not a key.
MapIndex(m, key) ==
  IF \E n \in 1..Len(m) : m[n].key = key
  THEN CHOOSE n \in 1..Len(m) : m[n].key = key
  ELSE 0

\* Mutant of MapSet: setting a key again moves it to the end.
MapSet_moveToEnd(m, key, value) ==
  SelectSeq(m, LAMBDA en : en.key # key) \o <<[key |-> key, value |-> value]>>

\* Map.prototype.set: a Map keeps its keys in insertion order; setting an
\* existing key replaces its value and keeps its position.
MapSet(m, key, value) ==
  IF MapIndex(m, key) = 0 THEN Append(m, [key |-> key, value |-> value])
  ELSE [m EXCEPT ![MapIndex(m, key)].value = value]

\* const [key, value] = pair.split('='): the first two pieces; value is
\* undefined (hasValue = FALSE) when there is only one.
SplitPair(pair) ==
  LET parts == Split(pair, "=") IN
  [key |-> parts[1],
   hasValue |-> Len(parts) >= 2,
   value |-> IF Len(parts) >= 2 THEN parts[2] ELSE <<>>]

\* The for..of loop of getQueryParams from pair n on, params being the Map so
\* far: [threw, params].
RECURSIVE SetPairs(_, _, _)
SetPairs(pairs, n, params) ==
  IF n > Len(pairs) THEN [threw |-> FALSE, params |-> params]
  ELSE LET kv == SplitPair(pairs[n])
           dk == decodeURIComponent(kv.key)
           dv == IF kv.hasValue /\ kv.value # <<>>
                 THEN decodeURIComponent(kv.value)
                 ELSE [ok |-> TRUE, text |-> <<>>]
       IN  IF kv.key = <<>> THEN SetPairs(pairs, n + 1, params)
           ELSE IF ~dk.ok \/ ~dv.ok THEN [threw |-> TRUE, params |-> <<>>]
           ELSE SetPairs(pairs, n + 1, MapSet(params, dk.text, dv.text))

\* Index of the last c in s, 0 when there is none.
RECURSIVE LastIndexOf(_, _)
LastIndexOf(s, c) ==
  IF s = <<>> THEN 0
  ELSE IF s[Len(s)] = c THEN Len(s) ELSE LastIndexOf(SubSeq(s, 1, Len(s) - 1), c)

\* Mutant of getPathWithoutQuery: the path is cut at its last '?'.
getPathWithoutQuery_lastMark(path) ==
  LET queryIndex == LastIndexOf(path, "?") IN
  IF queryIndex >= 1 THEN SubSeq(path, 1, queryIndex - 1) ELSE path

\* queryIndex >= 0 ? path.substring(0, queryIndex) : path  (indices 1-based here)
getPathWithoutQuery(path) ==
  LET queryIndex == IndexOf(path, "?", 1) IN
  IF queryIndex >= 1 THEN SubSeq(path, 1, queryIndex - 1) ELSE path

getQueryParams(path) ==
  LET queryIndex == IndexOf(path, "?", 1) IN
  IF queryIndex = 0 THEN [threw |-> FALSE, params |-> <<>>]
  ELSE SetPairs(Split(SubSeq(path, queryIndex + 1, Len(path)), "&"), 1, <<>>)

\* Array.prototype.join(c)
RECURSIVE Join(_, _)
Join(ls, c) ==
  IF ls = <<>> THEN <<>>
  ELSE IF Len(ls) = 1 THEN ls[1]
  ELSE ls[1] \o <<c>> \o Join(Tail(ls), c)

\* The words the helpers are called with: the six methods in several
\* spellings, a method the tool does not know, a method with a letter added,
\* and the empty string.
MethodWords ==
  { <<"G","E","T">>, <<"g","e","t">>, <<"P","o","s","t">>, <<"p","U","T">>,
    <<"D","E","L","E","T","E">>, <<"H","E","A","D">>, <<"P","A","T","C","H">>,
    <<"O","P","T","I","O","N","S">>, <<"G","E","T","X">>, <<>> }

\* The lines: optional leading whitespace, a word, a separator (none, one
\* space, tab and space), a path (or none), an optional further token, and
\* optional trailing whitespace.
LineInputs ==
  { lead \o w \o sep \o path \o more \o trail :
      lead \in {<<>>, <<" ">>},
      w \in MethodWords,
      sep \in {<<>>, <<" ">>, <<"\t", " ">>},
      path \in {<<>>, <<"/","a">>, <<"/","A","?","x","=","1">>},
      more \in {<<>>, <<" ", "b">>},
      trail \in {<<>>, <<" ">>} }

\* The pairs query strings are assembled from: a bare key, key=value, an
\* empty value, an empty key, a value holding '=', a second key, the empty
\* pair, an escaped key (%61 is a), an escaped value, a malformed escape, and
\* a pair holding a further '?'.
PairSet ==
  { <<"a">>,
    <<"a","=","1">>,
    <<"a","=">>,
    <<"=","1">>,
    <<"a","=","1","=","2">>,
    <<"b","=","2">>,
    <<>>,
    <<"%","6","1","=","3">>,
    <<"b","=","%","3","A">>,
    <<"a","=","%">>,
    <<"c","?","d">> }

PairLists == UNION {[1..n -> PairSet] : n \in 1..MaxPairs}

\* The paths: the empty path, one without '?', one that starts with '?', and
\* "/p?" followed by each query string.
PathInputs ==
  { <<>>, <<"/","p">>, <<"?","a">> }
    \cup { <<"/","p","?">> \o Join(ps, "&") : ps \in PairLists }

UtilIdle ==
  /\ ufn = ""
  /\ uarg = <<>>
  /\ uret = Null
  /\ upc = "idle"
  /\ lastOutput = <<>>
  /\ appended = <<>>
  /\ pcalls = 0

\* isHttpMethod(uarg)
CallIsHttpMethod ==
  /\ upc = "call" /\ ufn = "isHttpMethod"
  /\ uret' = [isHttpMethod |-> isHttpMethod(uarg)]
  /\ upc' = "done"
  /\ UNCHANGED <<ufn, uarg, lastOutput, appended, pcalls>>
  /\ UNCHANGED <<pvars, evars, cvars>>

\* isRequestLine(uarg) and parseRequestLine(uarg)
CallParseRequestLine ==
  /\ upc = "call" /\ ufn = "parseRequestLine"
  /\ uret' = [isRequestLine |-> isRequestLine(uarg), parsed |-> parseRequestLine(uarg)]
  /\ upc' = "done"
  /\ UNCHANGED <<ufn, uarg, lastOutput, appended, pcalls>>
  /\ UNCHANGED <<pvars, evars, cvars>>

\* getPathWithoutQuery(uarg)
CallGetPathWithoutQuery ==
  /\ upc = "call" /\ ufn = "getPathWithoutQuery"
  /\ uret' = [path |-> getPathWithoutQuery(uarg)]
  /\ upc' = "done"
  /\ UNCHANGED <<ufn, uarg, lastOutput, appended, pcalls>>
  /\ UNCHANGED <<pvars, evars, cvars>>

\* getQueryParams(uarg)
CallGetQueryParams ==
  /\ upc = "call" /\ ufn = "getQueryParams"
  /\ uret' = getQueryParams(uarg)
  /\ upc' = "done"
  /\ UNCHANGED <<ufn, uarg, lastOutput, appended, pcalls>>
  /\ UNCHANGED <<pvars, evars, cvars>>

\* ------------------------------------------------------- queryExecutor.ts
DEFAULT_TIMEOUT == 30000

StartsWith(s, p) == Len(s) >= Len(p) /\ SubSeq(s, 1, Len(p)) = p

\* Mutant of buildRequestUrl: the path is appended as it is.
buildRequestUrl_pathAsIs(baseUrl, path) ==
  (IF baseUrl # <<>> /\ baseUrl[Len(baseUrl)] = "/"
   THEN SubSeq(baseUrl, 1, Len(baseUrl) - 1) ELSE baseUrl) \o path

\* buildRequestUrl(baseUrl, path)
buildRequestUrl(baseUrl, path) ==
  LET normalizedPath == IF StartsWith(path, <<"/">>) THEN path ELSE <<"/">> \o path
      normalizedBase == IF baseUrl # <<>> /\ baseUrl[Len(baseUrl)] = "/"
                        THEN SubSeq(baseUrl, 1, Len(baseUrl) - 1)
                        ELSE baseUrl
  IN  normalizedBase \o normalizedPath

HttpPrefix  == <<"h","t","t","p",":","/","/">>
HttpsPrefix == <<"h","t","t","p","s",":","/","/">>

\* new URL(url): throws (ok = FALSE) unless the text is an absolute URL; for
\* an http(s) URL the host must not be empty.
ParseUrl(url) ==
  LET hostAt(n) == n <= Len(url) /\ url[n] \notin {"/", "?", "#"} IN
  IF StartsWith(url, HttpsPrefix) /\ hostAt(Len(HttpsPrefix) + 1)
  THEN [ok |-> TRUE, protocol |-> "https:"]
  ELSE IF StartsWith(url, HttpPrefix) /\ hostAt(Len(HttpPrefix) + 1)
  THEN [ok |-> TRUE, protocol |-> "http:"]
  ELSE [ok |-> FALSE, protocol |-> ""]

\* ExecuteOptions the model runs with: connection.url, connection.authType,
\* whether username / password / awsRegion are present, whether caCertPath is
\* unset ("none"), readable ("ok") or unreadable, and the optional timeout.
ExecOption(url, authType, user, pass, region, ca, hasTimeout, timeout) ==
  [url |-> url, authType |-> authType, hasUsername |-> user, hasPassword |-> pass,
   hasRegion |-> region, ca |-> ca, hasTimeout |-> hasTimeout, timeout |-> timeout]

UrlHttp  == <<"h","t","t","p",":","/","/","h">>
UrlHttps == <<"h","t","t","p","s",":","/","/","h","/">>
UrlBad   == <<"h">>

OptionsSet ==
  { ExecOption(UrlHttp,  "basic",   TRUE,  TRUE,  FALSE, "none",       FALSE, 0),
    ExecOption(UrlHttps, "basic",   TRUE,  TRUE,  FALSE, "ok",         TRUE,  5000),
    ExecOption(UrlHttps, "aws-iam", FALSE, FALSE, TRUE,  "none",       FALSE, 0),
    ExecOption(UrlHttp,  "basic",   TRUE,  FALSE, FALSE, "none",       FALSE, 0),
    ExecOption(UrlHttp,  "basic",   FALSE, TRUE,  FALSE, "none",       FALSE, 0),
    ExecOption(UrlHttps, "aws-iam", FALSE, FALSE, FALSE, "none",       TRUE,  5000),
    ExecOption(UrlHttps, "basic",   TRUE,  TRUE,  FALSE, "unreadable", FALSE, 0),
    ExecOption(UrlBad,   "basic",   TRUE,  TRUE,  FALSE, "none",       FALSE, 0) }

\* ParsedRequests handed to the executor: the batches are GET /a, POST b,
\* GET /a, ... cut to each length up to MaxBatch.
SampleGet ==
  [method |-> "GET", path |-> <<"/","a">>, hasBody |-> FALSE, body |-> <<>>,
   startLine |-> 0, endLine |-> 0]
SamplePost ==
  [method |-> "POST", path |-> <<"b">>, hasBody |-> TRUE, body |-> <<"{","}">>,
   startLine |-> 2, endLine |-> 3]

Batches == {[k \in 1..n |-> IF k % 2 = 1 THEN SampleGet ELSE SamplePost] : n \in 0..MaxBatch}

\* What the server can answer with: a status, and a body that arrives in
\* chunks ("{}" is JSON, "" and "{}{}" are not).
StatusCodes == {200, 300, 404}
StatusMessageOf(code) == IF code \in 200..299 THEN "OK" ELSE "Not OK"
ChunkSet == { <<"{","}">> }

\* Elapsed times (Date.now() - startTime, in ms) a result records. No
\* operation of the model reads durationMs, so one sample value is kept.
Durations == {7}

\* Mutant of EffectiveTimeout: the caller's timeout is ignored.
EffectiveTimeout_ignoresOption(opts) == DEFAULT_TIMEOUT

\* const { connection, timeout = DEFAULT_TIMEOUT } = options;
EffectiveTimeout(opts) == IF opts.hasTimeout THEN opts.timeout ELSE DEFAULT_TIMEOUT

\* The ways getAuthHeaders can settle: fulfilled with headers (ok) or rejected
\* with a message. signRequest may reject when no credentials can be loaded.
getAuthHeaders(opts) ==
  IF opts.authType = "basic"
  THEN (IF ~opts.hasUsername \/ ~opts.hasPassword
        THEN {[ok |-> FALSE, msg |-> "Username and password required for Basic Auth"]}
        ELSE {[ok |-> TRUE, msg |-> ""]})
  ELSE IF opts.authType = "aws-iam"
  THEN (IF ~opts.hasRegion
        THEN {[ok |-> FALSE, msg |-> "AWS region required for IAM Auth"]}
        ELSE {[ok |-> TRUE, msg |-> ""],
              [ok |-> FALSE, msg |-> "Could not load credentials from any providers"]})
  ELSE {[ok |-> TRUE, msg |-> ""]}

\* Mutant of createHttpsAgent: a CA file that cannot be read is skipped.
createHttpsAgent_lenient(opts) == TRUE

\* createHttpsAgent(connection): TRUE when it returns, FALSE when it throws
\* 'Failed to read CA certificate: ...'.
createHttpsAgent(opts) == opts.ca # "unreadable"

NoError == [text |-> "", ms |-> 0]

\* The result object the error handler, the timeout handler and the catch
\* block build: ms carries the number interpolated into a timeout message.
ErrorResult(text, ms, d) ==
  [success |-> FALSE, statusCode |-> 0, statusMessage |-> "", body |-> <<>>,
   hasJson |-> FALSE, headers |-> "{}", durationMs |-> d,
   hasError |-> TRUE, error |-> [text |-> text, ms |-> ms]]

\* Buffer.concat(chunks).toString('utf-8')
RECURSIVE ConcatChunks(_)
ConcatChunks(cs) == IF cs = <<>> THEN <<>> ELSE Head(cs) \o ConcatChunks(Tail(cs))

\* Mutant of IsSuccess: 300 counts as success.
IsSuccess_inclusive(statusCode) == statusCode >= 200 /\ statusCode <= 300

\* const success = statusCode >= 200 && statusCode < 300;
IsSuccess(statusCode) == statusCode >= 200 /\ statusCode < 300

\* Mutant of EndResult: a non-2xx response is reported through error and its
\* body dropped.
EndResult_errorOnFailure(c, d) ==
  IF IsSuccess(c.statusCode)
  THEN [success |-> TRUE, statusCode |-> c.statusCode, statusMessage |-> c.statusMessage,
        body |-> ConcatChunks(c.chunks), hasJson |-> JsonParses(ConcatChunks(c.chunks)),
        headers |-> "res.headers", durationMs |-> d, hasError |-> FALSE, error |-> NoError]
  ELSE ErrorResult(c.statusMessage, 0, d)

\* The result object the 'end' handler builds from the response c.
EndResult(c, d) ==
  LET body == ConcatChunks(c.chunks) IN
  [success |-> IsSuccess(c.statusCode), statusCode |-> c.statusCode,
   statusMessage |-> c.statusMessage, body |-> body, hasJson |-> JsonParses(body),
   headers |-> "res.headers", durationMs |-> d, hasError |-> FALSE, error |-> NoError]

\* The result object the 'timeout' handler builds.
TimeoutResult(opts, d) ==
  ErrorResult("Request timed out after ${timeout}ms", EffectiveTimeout(opts), d)

\* Mutant of CatchResult: the exception is rethrown.
CatchResult_rethrow(text, d) == [kind |-> "threw", value |-> ErrorResult(text, 0, d)]

\* catch (error) { return { success: false, statusCode: 0, ..., error: message } }
CatchResult(text, d) == [kind |-> "returned", value |-> ErrorResult(text, 0, d)]

PendingPromise == [state |-> "pending", value |-> ErrorResult("", 0, 0)]

\* Mutant of Resolve: a later resolve() replaces the value.
Resolve_lastWins(p, v) == [state |-> "fulfilled", value |-> v]

\* resolve(v) of the Promise executor: only the first call settles the promise.
Resolve(p, v) == IF p.state = "pending" THEN [state |-> "fulfilled", value |-> v] ELSE p

\* Mutant of PushResult: results are collected newest first.
PushResult_front(rs, r) == <<r>> \o rs

\* results.push(result)
PushResult(rs, r) == Append(rs, r)

NoConn == [st |-> "none", statusCode |-> 0, statusMessage |-> "", chunks |-> <<>>]

Calls == 1..Len(ereqs)

ExecIdle ==
  /\ ereqs = <<>>
  /\ eopts = ExecOption(<<>>, "basic", FALSE, FALSE, FALSE, "none", FALSE, 0)
  /\ bi = 0
  /\ epc = "idle"
  /\ request = Null
  /\ ret = Null
  /\ results = <<>>
  /\ promise = <<>>
  /\ conn = <<>>
  /\ cause = <<>>
  /\ first = <<>>
  /\ execLog = <<>>

ExecInit ==
  /\ ereqs \in Batches
  /\ eopts \in OptionsSet
  /\ bi = 0
  /\ epc = "loop"
  /\ request = Null
  /\ ret = Null
  /\ results = <<>>
  /\ promise = [k \in Calls |-> PendingPromise]
  /\ conn = [k \in Calls |-> NoConn]
  /\ cause = [k \in Calls |-> "none"]
  /\ first = [k \in Calls |-> [set |-> FALSE, value |-> ErrorResult("", 0, 0)]]
  /\ execLog = <<>>

\* executeRequest returns (or throws) what `out` says.
Returns(k, req, out) ==
  /\ ret' = out
  /\ execLog' = Append(execLog, [call |-> k, request |-> req, result |-> out.value])
  /\ epc' = "ret"

\* Mutant of ExecCall: the next call is started without awaiting the one in
\* progress.
ExecCall_noAwait ==
  /\ epc \in {"loop", "await"} /\ bi < Len(ereqs)
  /\ bi' = bi + 1
  /\ request' = ereqs[bi + 1]
  /\ epc' = "auth"
  /\ UNCHANGED <<ereqs, eopts, ret, execLog, cause, results, promise, conn, first>>
  /\ UNCHANGED <<pvars, uvars, cvars>>

\* for (const request of requests) { ... executeRequest(request, options): the
\* synchronous part up to 'await getAuthHeaders': buildRequestUrl and new URL.
ExecCall ==
  /\ epc = "loop" /\ bi < Len(ereqs)
  /\ bi' = bi + 1
  /\ request' = ereqs[bi + 1]
  /\ IF ParseUrl(buildRequestUrl(eopts.url, ereqs[bi + 1].path)).ok
     THEN /\ epc' = "auth"
          /\ UNCHANGED <<ret, execLog, cause>>
     ELSE \E d \in Durations :
            /\ Returns(bi + 1, ereqs[bi + 1], CatchResult("Invalid URL", d))
            /\ cause' = [cause EXCEPT ![bi + 1] = "invalid_url"]
  /\ UNCHANGED <<ereqs, eopts, results, promise, conn, first>>
  /\ UNCHANGED <<pvars, uvars, cvars>>

\* getAuthHeaders has settled: on rejection the catch block returns; otherwise
\* the https agent is created (which may throw into the catch block) and the
\* request is created, its handlers registered, its body written and ended.
ExecDispatch ==
  /\ epc = "auth"
  /\ \E auth \in getAuthHeaders(eopts) :
       IF ~auth.ok
       THEN \E d \in Durations :
              /\ Returns(bi, request, CatchResult(auth.msg, d))
              /\ cause' = [cause EXCEPT ![bi] = "auth"]
              /\ UNCHANGED <<conn>>
       ELSE IF ParseUrl(buildRequestUrl(eopts.url, request.path)).protocol = "https:"
               /\ ~createHttpsAgent(eopts)
       THEN \E d \in Durations :
              /\ Returns(bi, request, CatchResult("Failed to read CA certificate: ENOENT", d))
              /\ cause' = [cause EXCEPT ![bi] = "ca"]
              /\ UNCHANGED <<conn>>
       ELSE /\ conn' = [conn EXCEPT ![bi].st = "sent"]
            /\ epc' = "await"
            /\ UNCHANGED <<ret, execLog, cause>>
  /\ UNCHANGED <<ereqs, eopts, bi, request, results, promise, first>>
  /\ UNCHANGED <<pvars, uvars, cvars>>

\* A handler of call k resolves with result v, built because of `why`.
HandlerResolves(k, v, why) ==
  /\ promise' = [promise EXCEPT ![k] = Resolve(promise[k], v)]
  /\ first' = IF first[k].set THEN first
              ELSE [first EXCEPT ![k] = [set |-> TRUE, value |-> v]]
  /\ cause' = IF first[k].set THEN cause ELSE [cause EXCEPT ![k] = why]

\* The response callback: status line and headers have arrived.
EvResponse(k) ==
  /\ conn[k].st = "sent"
  /\ \E code \in StatusCodes :
       conn' = [conn EXCEPT ![k] = [st |-> "response", statusCode |-> code,
                                    statusMessage |-> StatusMessageOf(code),
                                    chunks |-> <<>>]]
  /\ UNCHANGED <<ereqs, eopts, bi, epc, request, ret, results, promise, cause, first, execLog>>
  /\ UNCHANGED <<pvars, uvars, cvars>>

\* res.on('data'): chunks.push(chunk)
EvData(k) ==
  /\ conn[k].st = "response"
  /\ Len(conn[k].chunks) < MaxChunks
  /\ \E chunk \in ChunkSet :
       conn' = [conn EXCEPT ![k].chunks = Append(@, chunk)]
  /\ UNCHANGED <<ereqs, eopts, bi, epc, request, ret, results, promise, cause, first, execLog>>
  /\ UNCHANGED <<pvars, uvars, cvars>>

\* res.on('end'): build the result from the buffered response and resolve.
EvEnd(k) ==
  /\ conn[k].st = "response"
  /\ conn' = [conn EXCEPT ![k].st = "ended"]
  /\ \E d \in Durations : HandlerResolves(k, EndResult(conn[k], d), "response")
  /\ UNCHANGED <<ereqs, eopts, bi, epc, request, ret, results, execLog>>
  /\ UNCHANGED <<pvars, uvars, cvars>>

\* req.on('error'): a transport error before any response, or the
\* 'socket hang up' that follows req.destroy().
EvError(k) ==
  /\ conn[k].st \in {"sent", "destroyed"}
  /\ conn' = [conn EXCEPT ![k].st = IF conn[k].st = "sent" THEN "failed" ELSE "closed"]
  /\ \E d \in Durations :
       HandlerResolves(k, ErrorResult(IF conn[k].st = "sent" THEN "connect ECONNREFUSED"
                                      ELSE "socket hang up", 0, d), "transport")
  /\ UNCHANGED <<ereqs, eopts, bi, epc, request, ret, results, execLog>>
  /\ UNCHANGED <<pvars, uvars, cvars>>

\* req.on('timeout'): req.destroy(), then resolve with the timeout result.
EvTimeout(k) ==
  /\ conn[k].st \in {"sent", "response"}
  /\ conn' = [conn EXCEPT ![k].st = "destroyed"]
  /\ \E d \in Durations : HandlerResolves(k, TimeoutResult(eopts, d), "timeout")
  /\ UNCHANGED <<ereqs, eopts, bi, epc, request, ret, results, execLog>>
  /\ UNCHANGED <<pvars, uvars, cvars>>

\* The connection is lost after the response began and before its end: the
\* response is aborted, and no handler executeRequest registered runs.
EvAborted(k) ==
  /\ conn[k].st = "response"
  /\ conn' = [conn EXCEPT ![k].st = "aborted"]
  /\ UNCHANGED <<ereqs, eopts, bi, epc, request, ret, results, promise, cause, first, execLog>>
  /\ UNCHANGED <<pvars, uvars, cvars>>

\* 'return await new Promise(...)': the promise is fulfilled, executeRequest
\* returns its value.
ExecResume ==
  /\ epc = "await"
  /\ promise[bi].state = "fulfilled"
  /\ Returns(bi, request, [kind |-> "returned", value |-> promise[bi].value])
  /\ UNCHANGED <<ereqs, eopts, bi, request, results, promise, conn, cause, first>>
  /\ UNCHANGED <<pvars, uvars, cvars>>

\* const result = await executeRequest(...); results.push(result);
\* (a rejection would propagate out of executeRequests)
BatchResume ==
  /\ epc = "ret"
  /\ IF ret.kind = "returned"
     THEN /\ results' = PushResult(results, ret.value)
          /\ epc' = "loop"
     ELSE /\ epc' = "rejected"
          /\ UNCHANGED results
  /\ UNCHANGED <<ereqs, eopts, bi, request, ret, promise, conn, cause, first, execLog>>
  /\ UNCHANGED <<pvars, uvars, cvars>>

\* return results;
BatchDone ==
  /\ epc = "loop" /\ bi = Len(ereqs)
  /\ epc' = "done"
  /\ UNCHANGED <<ereqs, eopts, bi, request, ret, results, promise, conn, cause, first, execLog>>
  /\ UNCHANGED <<pvars, uvars, cvars>>

ExecNext ==
  \/ ExecCall
  \/ ExecDispatch
  \/ \E k \in Calls : EvResponse(k)
  \/ \E k \in Calls : EvData(k)
  \/ \E k \in Calls : EvEnd(k)
  \/ \E k \in Calls : EvError(k)
  \/ \E k \in Calls : EvTimeout(k)
  \/ \E k \in Calls : EvAborted(k)
  \/ ExecResume
  \/ BatchResume
  \/ BatchDone

\* -------------------------------------- queryExecutor.ts: formatQueryResult
\* JSON.parse as a function to values. A value is [t, s, kids]: t is its type
\* ("object", "array", "string", "number", "true", "false", "null"; "member"
\* for a key with its value), s the text of a number, string or key, kids the
\* members, elements, or the value of a member. pos is the start of a value
\* of a text JsonParses accepts. Strings are kept as written: the texts of the
\* model hold no escapes, and no keys that are array indices (which an object
\* would list first).
RECURSIVE JValue(_, _)
RECURSIVE JMembers(_, _)
RECURSIVE JElements(_, _)

JLeaf(t, s) == [t |-> t, s |-> s, kids |-> <<>>]

\* obj[key] = value on the member list of an object: a key that is already
\* there keeps its place and takes the new value.
ObjSet(ms, m) ==
  IF \E n \in 1..Len(ms) : ms[n].s = m.s
  THEN [n \in 1..Len(ms) |-> IF ms[n].s = m.s THEN m ELSE ms[n]]
  ELSE Append(ms, m)

RECURSIVE ObjOf(_, _)
ObjOf(ms, acc) == IF ms = <<>> THEN acc ELSE ObjOf(Tail(ms), ObjSet(acc, Head(ms)))

JMembers(s, j) ==
  LET k  == StringEnd(s, j + 1)
      c  == SkipWs(s, k)
      vp == SkipWs(s, c + 1)
      n  == SkipWs(s, ParseValue(s, vp))
      m  == [t |-> "member", s |-> SubSeq(s, j + 1, k - 2), kids |-> <<JValue(s, vp)>>]
  IN  IF At(s, n) = "," THEN <<m>> \o JMembers(s, SkipWs(s, n + 1)) ELSE <<m>>

JElements(s, j) ==
  LET n == SkipWs(s, ParseValue(s, j)) IN
  IF At(s, n) = "," THEN <<JValue(s, j)>> \o JElements(s, SkipWs(s, n + 1))
  ELSE <<JValue(s, j)>>

JValue(s, pos) ==
  LET c == At(s, pos)
      q == SkipWs(s, pos + 1)
  IN  IF c = "{"
      THEN [t |-> "object", s |-> <<>>,
            kids |-> IF At(s, q) = "}" THEN <<>> ELSE ObjOf(JMembers(s, q), <<>>)]
      ELSE IF c = "["
      THEN [t |-> "array", s |-> <<>>,
            kids |-> IF At(s, q) = "]" THEN <<>> ELSE JElements(s, q)]
      ELSE IF c = "\"" THEN JLeaf("string", SubSeq(s, pos + 1, StringEnd(s, pos + 1) - 2))
      ELSE IF c = "t" THEN JLeaf("true", <<>>)
      ELSE IF c = "f" THEN JLeaf("false", <<>>)
      ELSE IF c = "n" THEN JLeaf("null", <<>>)
      ELSE JLeaf("number", SubSeq(s, pos, ParseNumber(s, pos) - 1))

\* JSON.parse(s) for a text that parses.
JsonParse(s) == JValue(s, SkipWs(s, 1))

\* The text without the zeros at its end.
RECURSIVE StripZeros(_)
StripZeros(s) ==
  IF s # <<>> /\ s[Len(s)] = "0" THEN StripZeros(SubSeq(s, 1, Len(s) - 1)) ELSE s

\* String(x) of the number a JSON number text denotes, for texts without an
\* exponent: no zeros at the end of the fraction, no empty fraction, no -0.
NumberText(s) ==
  LET neg  == s[1] = "-"
      abs  == IF neg THEN Tail(s) ELSE s
      dot  == IndexOf(abs, ".", 1)
      int  == IF dot = 0 THEN abs ELSE SubSeq(abs, 1, dot - 1)
      frac == IF dot = 0 THEN <<>> ELSE StripZeros(SubSeq(abs, dot + 1, Len(abs)))
      mag  == IF frac = <<>> THEN int ELSE int \o <<".">> \o frac
  IN  IF neg /\ mag # <<"0">> THEN <<"-">> \o mag ELSE mag

\* Whether if (x) takes the value for true: not null, false, 0 or "".
Truthy(v) ==
  /\ v.t \notin {"null", "false"}
  /\ v.t = "number" => NumberText(v.s) # <<"0">>
  /\ v.t = "string" => v.s # <<>>

Spaces(n) == [k \in 1..n |-> " "]

\* texts.join(sep) for a separator text
RECURSIVE JoinText(_, _)
JoinText(ts, sep) ==
  IF ts = <<>> THEN <<>>
  ELSE IF Len(ts) = 1 THEN ts[1]
  ELSE ts[1] \o sep \o JoinText(Tail(ts), sep)

Quoted(s) == <<"\"">> \o s \o <<"\"">>

\* JSON.stringify(v, null, 2), the value being nested ind spaces deep.
RECURSIVE Stringify(_, _)
Stringify(v, ind) ==
  IF v.t = "object"
  THEN (IF v.kids = <<>> THEN <<"{", "}">>
        ELSE <<"{", "\n">>
             \o JoinText([n \in 1..Len(v.kids) |->
                            Spaces(ind + 2) \o Quoted(v.kids[n].s) \o <<":", " ">>
                            \o Stringify(v.kids[n].kids[1], ind + 2)],
                         <<",", "\n">>)
             \o <<"\n">> \o Spaces(ind) \o <<"}">>)
  ELSE IF v.t = "array"
  THEN (IF v.kids = <<>> THEN <<"[", "]">>
        ELSE <<"[", "\n">>
             \o JoinText([n \in 1..Len(v.kids) |->
                            Spaces(ind + 2) \o Stringify(v.kids[n], ind + 2)],
                         <<",", "\n">>)
             \o <<"\n">> \o Spaces(ind) \o <<"]">>)
  ELSE IF v.t = "string" THEN Quoted(v.s)
  ELSE IF v.t = "number" THEN NumberText(v.s)
  ELSE IF v.t = "true" THEN <<"t","r","u","e">>
  ELSE IF v.t = "false" THEN <<"f","a","l","s","e">>
  ELSE <<"n","u","l","l">>

DigitChars == <<"0","1","2","3","4","5","6","7","8","9">>

\* String(n) for a natural number
RECURSIVE NatText(_)
NatText(n) ==
  IF n < 10 THEN <<DigitChars[n + 1]>>
  ELSE NatText(n \div 10) \o <<DigitChars[(n % 10) + 1]>>

\* The spelling of an HttpMethod.
MethodText(name) ==
  HTTP_METHODS[CHOOSE k \in 1..Len(HTTP_METHODS) : HTTP_METHODS[k].name = name].chars

\* The two glyphs of the status line, one character each.
CheckMark == "U+2713"
CrossMark == "U+2717"

\* The status line of a result without an error.
StatusLine(result) ==
  <<"#", " ", IF result.success THEN CheckMark ELSE CrossMark, " ">>
  \o NatText(result.statusCode) \o <<" ">> \o result.statusMessage
  \o <<" ", "(">> \o NatText(result.durationMs) \o <<"m", "s", ")">>

ErrorStatusLine(result) == <<"#", " ", "E", "R", "R", "O", "R", ":", " ">> \o result.error

\* if (result.json && prettyPrint) ... else if (result.body) ...: the lines
\* pushed for the response body.
ResponseLines(result, prettyPrint) ==
  IF result.hasJson /\ Truthy(result.json) /\ prettyPrint
  THEN <<Stringify(result.json, 0)>>
  ELSE IF result.body # <<>> THEN <<result.body>>
  ELSE <<>>

\* Mutant of formatQueryResult: the status line is the ERROR line whenever the
\* request did not succeed.
formatQueryResult_errorOnFailure(req, result, prettyPrint) ==
  JoinText(<< <<"#", " ">> \o MethodText(req.method) \o <<" ">> \o req.path,
              <<>>,
              IF ~result.success THEN ErrorStatusLine(result) ELSE StatusLine(result),
              <<>> >> \o ResponseLines(result, prettyPrint),
           <<"\n">>)

\* Mutant of formatQueryResult: only the response body is rendered.
formatQueryResult_bodyOnly(req, result, prettyPrint) ==
  JoinText(ResponseLines(result, prettyPrint), <<"\n">>)

\* formatQueryResult(request, result, prettyPrint)
formatQueryResult(req, result, prettyPrint) ==
  JoinText(<< <<"#", " ">> \o MethodText(req.method) \o <<" ">> \o req.path,
              <<>>,
              IF result.hasError /\ result.error # <<>>
              THEN ErrorStatusLine(result) ELSE StatusLine(result),
              <<>> >> \o ResponseLines(result, prettyPrint),
           <<"\n">>)

\* The QueryResult the 'end' handler of executeRequest builds: json is
\* JSON.parse(body), and is left undefined when the body does not parse.
ResponseResult(statusCode, statusMessage, body, d) ==
  [success |-> IsSuccess(statusCode), statusCode |-> statusCode,
   statusMessage |-> statusMessage, body |-> body,
   hasJson |-> JsonParses(body),
   json |-> IF JsonParses(body) THEN JsonParse(body) ELSE Null,
   durationMs |-> d, hasError |-> FALSE, error |-> <<>>]

\* The QueryResult of the 'error' and 'timeout' handlers and of the catch
\* block.
FailureResult(message, d) ==
  [success |-> FALSE, statusCode |-> 0, statusMessage |-> <<>>, body |-> <<>>,
   hasJson |-> FALSE, json |-> Null, durationMs |-> d,
   hasError |-> TRUE, error |-> message]

\* Response bodies: none, JSON objects and arrays, JSON scalars (some of them
\* written in a way JSON.stringify does not write them), and texts that are
\* not JSON.
BodyTexts ==
  { <<>>,
    <<"{","}">>,
    <<"{","\"","a","\"",":","1","}">>,
    <<"{","\"","a","\"",":","1",",","\"","b","\"",":","[","t","r","u","e",",","{","}","]","}">>,
    <<"{"," ","\"","a","\"",":","1",","," ","\"","a","\"",":","2"," ","}">>,
    <<"[","]">>,
    <<"[","1",".","5","0",",","\"","x","\"","]">>,
    <<"1">>, <<"0">>, <<"0",".","0">>, <<" ","0">>,
    <<"t","r","u","e">>, <<"f","a","l","s","e"," ">>, <<"n","u","l","l">>,
    <<"\"","\"">>, <<"\"","x","\"","\n">>,
    <<"o","k">>, <<"{","}","{","}">>, <<"<","p",">","\n","<","/","p",">">> }

\* Messages of the errors a request can end with; an Error can carry an empty
\* message.
ErrorTexts ==
  { <<"E","C","O","N","N","R","E","F","U","S","E","D">>, <<"t","i","m","e","d"," ","o","u","t">>, <<>> }

StatusTexts == { <<"O","K">>, <<"N","o","t"," ","F","o","u","n","d">>, <<>> }

QueryResults ==
  { ResponseResult(c, m, b, d) :
      c \in {200, 404}, m \in StatusTexts, b \in BodyTexts, d \in {0, 12} }
  \cup { FailureResult(m, d) : m \in ErrorTexts, d \in {0, 12} }

FormatInputs ==
  { [request |-> [method |-> m, path |-> <<"/","a">>], result |-> r, prettyPrint |-> pp] :
      m \in {"GET", "POST"}, r \in QueryResults, pp \in BOOLEAN }

\* formatQueryResult(request, result, prettyPrint)
CallFormatQueryResult ==
  /\ upc = "call" /\ ufn = "formatQueryResult"
  /\ uret' = formatQueryResult(uarg.request, uarg.result, uarg.prettyPrint)
  /\ upc' = "done"
  /\ UNCHANGED <<ufn, uarg, lastOutput, appended, pcalls>>
  /\ UNCHANGED <<pvars, evars, cvars>>

\* ------------------------------------------------------------- basicAuth.ts
\* The printable ASCII characters in code order: code 32 (space) to 95 (_),
\* and 97 (a) to 126 (~).
AsciiLow ==
  << " ", "!", "\"", "#", "$", "%", "&", "'", "(", ")", "*", "+", ",", "-", ".", "/",
     "0", "1", "2", "3", "4", "5", "6", "7", "8", "9", ":", ";", "<", "=", ">", "?",
     "@", "A", "B", "C", "D", "E", "F", "G", "H", "I", "J", "K", "L", "M", "N", "O",
     "P", "Q", "R", "S", "T", "U", "V", "W", "X", "Y", "Z", "[", "\\", "]", "^", "_" >>

AsciiHigh ==
  << "a", "b", "c", "d", "e", "f", "g", "h", "i", "j", "k", "l", "m", "n", "o", "p",
     "q", "r", "s", "t", "u", "v", "w", "x", "y", "z", "{", "|", "}", "~" >>

\* The byte Buffer.from(text) holds for a printable ASCII character.
ByteOf(c) ==
  IF \E k \in 1..Len(AsciiLow) : AsciiLow[k] = c
  THEN 31 + (CHOOSE k \in 1..Len(AsciiLow) : AsciiLow[k] = c)
  ELSE 96 + (CHOOSE k \in 1..Len(AsciiHigh) : AsciiHigh[k] = c)

\* The 64 digits of base64, in value order.
Base64Chars ==
  << "A", "B", "C", "D", "E", "F", "G", "H", "I", "J", "K", "L", "M", "N", "O", "P",
     "Q", "R", "S", "T", "U", "V", "W", "X", "Y", "Z", "a", "b", "c", "d", "e", "f",
     "g", "h", "i", "j", "k", "l", "m", "n", "o", "p", "q", "r", "s", "t", "u", "v",
     "w", "x", "y", "z", "0", "1", "2", "3", "4", "5", "6", "7", "8", "9", "+", "/" >>

Base64Digit(n) == Base64Chars[n + 1]

\* buffer.toString('base64'): three bytes give four digits; one or two bytes
\* left over give two or three digits and '=' up to four characters.
RECURSIVE ToBase64(_)
ToBase64(bytes) ==
  IF bytes = <<>> THEN <<>>
  ELSE IF Len(bytes) = 1
  THEN <<Base64Digit(bytes[1] \div 4), Base64Digit((bytes[1] % 4) * 16), "=", "=">>
  ELSE IF Len(bytes) = 2
  THEN <<Base64Digit(bytes[1] \div 4),
         Base64Digit((bytes[1] % 4) * 16 + bytes[2] \div 16),
         Base64Digit((bytes[2] % 16) * 4), "=">>
  ELSE <<Base64Digit(bytes[1] \div 4),
         Base64Digit((bytes[1] % 4) * 16 + bytes[2] \div 16),
         Base64Digit((bytes[2] % 16) * 4 + bytes[3] \div 64),
         Base64Digit(bytes[3] % 64)>>
       \o ToBase64(SubSeq(bytes, 4, Len(bytes)))

\* Mutant of generateBasicAuthHeader: the credentials are sent as they are.
generateBasicAuthHeader_plain(username, password) ==
  <<"B","a","s","i","c"," ">> \o username \o <<":">> \o password

\* generateBasicAuthHeader({username, password})
generateBasicAuthHeader(username, password) ==
  LET text == username \o <<":">> \o password IN
  <<"B","a","s","i","c"," ">> \o ToBase64([k \in 1..Len(text) |-> ByteOf(text[k])])

\* createBasicAuthHeaders({username, password}): the headers in the order of
\* their keys, each [key, value].
createBasicAuthHeaders(username, password) ==
  << [key |-> "Authorization", value |-> generateBasicAuthHeader(username, password)] >>

\* --------------------------------------------------------------- awsAuth.ts
\* Mutant of getCredentialsProvider: a named profile is preferred to explicit
\* credentials.
getCredentialsProvider_profileFirst(sopts) ==
  IF sopts.profile # <<>> THEN [kind |-> "fromIni", profile |-> sopts.profile]
  ELSE IF sopts.credentials # Null
  THEN [kind |-> "static", accessKeyId |-> sopts.credentials.accessKeyId,
        secretAccessKey |-> sopts.credentials.secretAccessKey]
  ELSE [kind |-> "defaultProvider"]

\* getCredentialsProvider(options): which provider the signer is given.
getCredentialsProvider(sopts) ==
  IF sopts.credentials # Null
  THEN [kind |-> "static", accessKeyId |-> sopts.credentials.accessKeyId,
        secretAccessKey |-> sopts.credentials.secretAccessKey]
  ELSE IF sopts.profile # <<>> THEN [kind |-> "fromIni", profile |-> sopts.profile]
  ELSE [kind |-> "defaultProvider"]

\* createSigner(options): the configuration of the SignatureV4 signer.
createSigner(sopts) ==
  [credentials |-> getCredentialsProvider(sopts), region |-> sopts.region, service |-> "es"]

\* signRequest(method, url, options, body): the request handed to
\* signer.sign and the signer's configuration. body is [has, text]; has is
\* false for undefined.
signRequest(method, url, sopts, body) ==
  [signer |-> createSigner(sopts),
   method |-> ToUpperCase(MethodText(method)), url |-> url, body |-> body]

\* The headers of a signed request, in key order: those of the request, and
\* what the signer adds (their values stand for texts that depend on the time
\* and on what was signed).
SignedHeaders(url) ==
  << [key |-> "host", value |-> <<"h">>],
     [key |-> "Content-Type", value |-> <<"application/json">>],
     [key |-> "x-amz-date", value |-> <<"${date}">>],
     [key |-> "x-amz-content-sha256", value |-> <<"${hash}">>],
     [key |-> "authorization", value |-> <<"AWS4-HMAC-SHA256 ${signature}">>] >>

\* -------------------------------------------- queryExecutor.ts: getAuthHeaders
\* The options getAuthHeaders passes to signRequest: credentials only when
\* both awsCredentials.accessKeyId and awsCredentials.secretAccessKey are
\* there (an absent and an empty text are both <<>>).
SignerOptions(options) ==
  [region |-> options.awsRegion, profile |-> options.awsProfile,
   credentials |-> IF options.accessKeyId # <<>> /\ options.secretAccessKey # <<>>
                   THEN [accessKeyId |-> options.accessKeyId,
                         secretAccessKey |-> options.secretAccessKey]
                   ELSE Null]

NoBody == [has |-> FALSE, text |-> <<>>]

\* How a call of getAuthHeaders ends: it throws a message, or returns
\* headers; signed is the signRequest call it made, or Null.
AuthThrew(message) == [threw |-> TRUE, message |-> message, headers |-> <<>>, signed |-> Null]
AuthReturned(headers, signed) ==
  [threw |-> FALSE, message |-> "", headers |-> headers, signed |-> signed]

\* getAuthHeaders(method, url, body, options). options holds the fields of
\* options.connection, options.password and the two of options.awsCredentials;
\* signerOk says whether the signer can load credentials and sign.
ResolveAuthHeaders(method, url, body, options, signerOk) ==
  IF options.authType = "basic"
  THEN (IF options.username = <<>> \/ options.password = <<>>
        THEN AuthThrew("Username and password required for Basic Auth")
        ELSE AuthReturned(createBasicAuthHeaders(options.username, options.password), Null))
  ELSE IF options.authType = "aws-iam"
  THEN (IF options.awsRegion = <<>>
        THEN AuthThrew("AWS region required for IAM Auth")
        ELSE IF ~signerOk
        THEN AuthThrew("Could not load credentials from any providers")
        ELSE AuthReturned(SignedHeaders(url),
                          signRequest(method, url, SignerOptions(options), NoBody)))
  ELSE AuthReturned(<<>>, Null)

AuthOptions(authType, username, password, region, profile, key, secret) ==
  [authType |-> authType, username |-> username, password |-> password,
   awsRegion |-> region, awsProfile |-> profile,
   accessKeyId |-> key, secretAccessKey |-> secret]

\* Options of the three kinds of connection: Basic with and without user name
\* and password, IAM with and without region, profile, access key and secret,
\* and no authentication.
AuthOptionsSet ==
  { AuthOptions("basic", u, pw, <<>>, <<>>, <<>>, <<>>) :
      u  \in { <<>>, <<"a">>, <<"a","b">>, <<"u","s","e","r">> },
      pw \in { <<>>, <<"b">>, <<"p",":","1">>, <<"p","a","s","s">> } }
  \cup
  { AuthOptions("aws-iam", <<>>, <<>>, rg, pf, k, sc) :
      rg \in { <<>>, <<"u","s">> }, pf \in { <<>>, <<"d","e","v">> },
      k  \in { <<>>, <<"A","K">> }, sc \in { <<>>, <<"S","K">> } }
  \cup
  { AuthOptions("none", <<>>, <<>>, <<>>, <<>>, <<>>, <<>>) }

AuthInputs ==
  { [method |-> m, url |-> UrlHttp \o <<"/","a">>, body |-> b, options |-> o, signerOk |-> ok] :
      m \in {"GET", "POST"},
      b \in {NoBody, [has |-> TRUE, text |-> <<"{","}">>]},
      o \in AuthOptionsSet, ok \in BOOLEAN }

\* getAuthHeaders(uarg.method, uarg.url, uarg.body, uarg.options)
CallGetAuthHeaders ==
  /\ upc = "call" /\ ufn = "getAuthHeaders"
  /\ uret' = ResolveAuthHeaders(uarg.method, uarg.url, uarg.body, uarg.options, uarg.signerOk)
  /\ upc' = "done"
  /\ UNCHANGED <<ufn, uarg, lastOutput, appended, pcalls>>
  /\ UNCHANGED <<pvars, evars, cvars>>

\* ------------------------------------- queryExecutor.ts: request headers
DefaultHeaders ==
  << [key |-> "Content-Type", value |-> <<"application/json">>],
     [key |-> "Accept", value |-> <<"application/json">>] >>

\* { ...obj, ...src }: the properties of src set on obj in their order; a key
\* obj already has keeps its place and takes the value of src.
RECURSIVE Spread(_, _)
Spread(obj, src) ==
  IF src = <<>> THEN obj
  ELSE Spread(MapSet(obj, Head(src).key, Head(src).value), Tail(src))

\* Mutant of RequestHeaders: the auth headers are left out.
RequestHeaders_defaultsOnly(authHeaders) == DefaultHeaders

\* { 'Content-Type': 'application/json', Accept: 'application/json', ...authHeaders }
RequestHeaders(authHeaders) == Spread(DefaultHeaders, authHeaders)

\* The start of executeRequest up to the headers of the request: the auth
\* headers are resolved, and unless that throws the headers are built.
CallRequestHeaders ==
  /\ upc = "call" /\ ufn = "requestHeaders"
  /\ uret' = LET a == ResolveAuthHeaders(uarg.method, uarg.url, uarg.body, uarg.options,
                                         uarg.signerOk)
             IN  IF a.threw THEN [threw |-> TRUE, auth |-> <<>>, headers |-> <<>>]
                 ELSE [threw |-> FALSE, auth |-> a.headers, headers |-> RequestHeaders(a.headers)]
  /\ upc' = "done"
  /\ UNCHANGED <<ufn, uarg, lastOutput, appended, pcalls>>
  /\ UNCHANGED <<pvars, evars, cvars>>

\* ----------------------------------------------------------- outputPanel.ts
\* The character of the separator line, and the number of them.
RuleChar == "U+2500"
RuleWidth == 60

\* append(text): this.lastOutput += text + '\n'
PanelAppend(out, text) == out \o text \o <<"\n">>

\* showResult(request, result, prettyPrint)
ShowResult(out, pair, prettyPrint) ==
  PanelAppend(PanelAppend(out, formatQueryResult(pair.request, pair.result, prettyPrint)),
              <<>>)

\* showSeparator()
ShowSeparator(out) == PanelAppend(out, [k \in 1..RuleWidth |-> RuleChar])

\* showResults(results, prettyPrint): for (const { request, result } of results)
RECURSIVE ShowResults(_, _, _)
ShowResults(out, pairs, prettyPrint) ==
  IF pairs = <<>> THEN out
  ELSE ShowResults(ShowResult(out, Head(pairs), prettyPrint), Tail(pairs), prettyPrint)

\* Mutant of ShowAll: a separator line follows every entry.
RECURSIVE ShowAll_ruleAfterEach(_, _, _)
ShowAll_ruleAfterEach(out, pairs, k) ==
  IF k > Len(pairs) THEN out
  ELSE ShowAll_ruleAfterEach(ShowSeparator(ShowResult(out, pairs[k], TRUE)), pairs, k + 1)

\* The display loop of executeAllRequests from entry k on.
RECURSIVE ShowAll(_, _, _)
ShowAll(out, pairs, k) ==
  IF k > Len(pairs) THEN out
  ELSE LET shown == ShowResult(out, pairs[k], TRUE) IN
       ShowAll(IF k < Len(pairs) THEN ShowSeparator(shown) ELSE shown, pairs, k + 1)

\* Request/result pairs of a batch: a 200 answer with a JSON body, a 404
\* answer with a text body, and a request that ended with an error.
SamplePairs ==
  { [request |-> [method |-> "GET", path |-> <<"/","a">>],
     result  |-> ResponseResult(200, <<"O","K">>, <<"{","\"","a","\"",":","1","}">>, 12)],
    [request |-> [method |-> "POST", path |-> <<"/","a">>],
     result  |-> ResponseResult(404, <<>>, <<"o","k">>, 0)],
    [request |-> [method |-> "GET", path |-> <<"/","a">>],
     result  |-> FailureResult(<<"t","i","m","e","d"," ","o","u","t">>, 12)] }

PairBatches == UNION { [1..n -> SamplePairs] : n \in 0..MaxBatch }

\* What the panel shows before the call (kept in uarg.panel): nothing, or an
\* earlier info line.
PanelTexts == { <<>>, <<"#"," ","x","\n">> }

\* OutputPanel.showResults(uarg.results, uarg.prettyPrint)
CallShowResults ==
  /\ upc = "call" /\ ufn = "showResults"
  /\ lastOutput' = ShowResults(lastOutput, uarg.results, uarg.prettyPrint)
  /\ uret' = Null
  /\ upc' = "done"
  /\ UNCHANGED <<ufn, uarg, appended, pcalls>>
  /\ UNCHANGED <<pvars, evars, cvars>>

\* The command executeAllRequests, for a document that parsed to the requests
\* of uarg.results and whose requests ended with the results of
\* uarg.results. It returns at once without an .osdev editor or without
\* options (uarg.ready is false) and when there are no requests; otherwise
\* the panel is cleared (the progress lines shown while the requests ran are
\* gone) and the results are shown.
CallExecuteAllRequests ==
  /\ upc = "call" /\ ufn = "executeAllRequests"
  /\ lastOutput' = IF ~uarg.ready \/ Len(uarg.results) = 0 THEN lastOutput
                   ELSE ShowAll(<<>>, uarg.results, 1)
  /\ uret' = Null
  /\ upc' = "done"
  /\ UNCHANGED <<ufn, uarg, appended, pcalls>>
  /\ UNCHANGED <<pvars, evars, cvars>>

\* ------------------------------------------ queryExecutor.ts: buildRequestUrl
\* Base URLs with no, one and two '/' at the end, and the empty text; paths
\* with and without a leading '/', with a query string, and the empty path.
UrlInputs ==
  { [base |-> b, path |-> p] :
      b \in { UrlHttp, UrlHttp \o <<"/">>, UrlHttp \o <<"/","/">>, UrlHttp \o <<"/","x">>, <<>> },
      p \in { <<"/","a">>, <<"a">>, <<>>, <<"/">>, <<"/","/","a">>,
              <<"/","a","?","v","=","1">>, <<"a","?","q","=","/","&","r","=","b","/">> } }

\* buildRequestUrl(uarg.base, uarg.path)
CallBuildRequestUrl ==
  /\ upc = "call" /\ ufn = "buildRequestUrl"
  /\ uret' = buildRequestUrl(uarg.base, uarg.path)
  /\ upc' = "done"
  /\ UNCHANGED <<ufn, uarg, lastOutput, appended, pcalls>>
  /\ UNCHANGED <<pvars, evars, cvars>>

\* ------------------------------------------- queryExecutor.ts: testConnection
Undefined == [has |-> FALSE, value |-> Null]

\* v[key] for a property name that is not an index: the member of an object;
\* undefined on an array, a string, a number or a boolean.
GetProp(v, key) ==
  IF v.t = "object" /\ \E n \in 1..Len(v.kids) : v.kids[n].s = key
  THEN [has |-> TRUE,
        value |-> v.kids[CHOOSE n \in 1..Len(v.kids) : v.kids[n].s = key].kids[1]]
  ELSE Undefined

\* version?.number: undefined when version is undefined or null.
OptionalProp(p, key) ==
  IF ~p.has \/ p.value.t = "null" THEN Undefined ELSE GetProp(p.value, key)

ConnectedMessage(result) ==
  <<"C","o","n","n","e","c","t","e","d"," ","s","u","c","c","e","s","s","f","u","l","l","y"," ","i","n"," ">> \o NatText(result.durationMs)
  \o <<"m","s">>

HttpMessage(result) ==
  <<"H","T","T","P"," ">> \o NatText(result.statusCode) \o <<":"," ">> \o result.statusMessage

TestRequest == [method |-> "GET", path |-> <<"/">>, startLine |-> 0, endLine |-> 0]

\* Mutant of TestOutcome: a response without cluster name or version number
\* counts as a failure.
TestOutcome_requireInfo(result) ==
  LET name   == IF result.hasJson THEN GetProp(result.json, <<"c","l","u","s","t","e","r","_","n","a","m","e">>) ELSE Undefined
      number == IF result.hasJson
                THEN OptionalProp(GetProp(result.json, <<"v","e","r","s","i","o","n">>), <<"n","u","m","b","e","r">>)
                ELSE Undefined
  IN  [success |-> result.success /\ name.has /\ number.has,
       message |-> IF result.success THEN ConnectedMessage(result) ELSE HttpMessage(result),
       clusterName |-> name, version |-> number]

\* What testConnection returns for the result of its request.
TestOutcome(result) ==
  IF ~result.success
  THEN [success |-> FALSE,
        message |-> IF result.hasError /\ result.error # <<>>
                    THEN result.error ELSE HttpMessage(result),
        clusterName |-> Undefined, version |-> Undefined]
  ELSE IF result.hasJson /\ Truthy(result.json) /\ result.json.t \in {"object", "array"}
  THEN [success |-> TRUE, message |-> ConnectedMessage(result),
        clusterName |-> GetProp(result.json, <<"c","l","u","s","t","e","r","_","n","a","m","e">>),
        version |-> OptionalProp(GetProp(result.json, <<"v","e","r","s","i","o","n">>), <<"n","u","m","b","e","r">>)]
  ELSE [success |-> TRUE, message |-> ConnectedMessage(result),
        clusterName |-> Undefined, version |-> Undefined]

\* Answers to GET /: cluster information with and without name, version and
\* version number, other JSON, and texts that are not JSON.
InfoBodies ==
  { <<"{","\"","c","l","u","s","t","e","r","_","n","a","m","e","\"",":","\"","c","\"",",","\"","v","e","r","s","i","o","n","\"",":","{","\"","n","u","m","b","e","r","\"",":","\"","2","\"","}","}">>,
    <<"{","\"","v","e","r","s","i","o","n","\"",":","{","\"","n","u","m","b","e","r","\"",":","\"","2","\"","}","}">>,
    <<"{","\"","c","l","u","s","t","e","r","_","n","a","m","e","\"",":","\"","c","\"",",","\"","v","e","r","s","i","o","n","\"",":","{","}","}">>,
    <<"{","\"","c","l","u","s","t","e","r","_","n","a","m","e","\"",":","\"","c","\"","}">>,
    <<"{","\"","v","e","r","s","i","o","n","\"",":","\"","2","\"","}">>,
    <<"{","\"","v","e","r","s","i","o","n","\"",":","n","u","l","l","}">>,
    <<"[","]">>,
    <<"1">>,
    <<"n","u","l","l">>,
    <<"o","k">>,
    <<>> }

\* The results executeRequest can return to testConnection.
TestInputs ==
  { ResponseResult(c, m, b, 12) : c \in {200, 404}, m \in {<<"O","K">>, <<>>}, b \in InfoBodies }
  \cup { FailureResult(m, 12) : m \in ErrorTexts }

\* testConnection(options): executes TestRequest (executed records the
\* requests handed to executeRequest), which ends with the result uarg, and
\* returns the outcome.
CallTestConnection ==
  /\ upc = "call" /\ ufn = "testConnection"
  /\ uret' = [executed |-> <<TestRequest>>, outcome |-> TestOutcome(uarg)]
  /\ upc' = "done"
  /\ UNCHANGED <<ufn, uarg, lastOutput, appended, pcalls>>
  /\ UNCHANGED <<pvars, evars, cvars>>

\* ------------------------------------------- outputPanel.ts: the panel's life
\* Texts handed to append, and messages handed to showInfo and showError.
AppendTexts == { <<>>, <<"a">> }
PanelMessages == { <<"m">> }

PanelInit ==
  /\ ufn = "" /\ uarg = <<>> /\ uret = Null /\ upc = "panel"
  /\ lastOutput = <<>>
  /\ appended = <<>>
  /\ pcalls = 0

\* One more call of a method of the panel; none of them touches the helper
\* call variables.
PanelCall ==
  /\ upc = "panel" /\ pcalls < MaxPanelCalls
  /\ pcalls' = pcalls + 1
  /\ UNCHANGED <<ufn, uarg, uret, upc>>
  /\ UNCHANGED <<pvars, evars, cvars>>

\* append(text)
PanelDoAppend ==
  /\ PanelCall
  /\ \E text \in AppendTexts :
       /\ lastOutput' = PanelAppend(lastOutput, text)
       /\ appended' = Append(appended, text)

\* Mutant of PanelClear: the channel is cleared, lastOutput is kept.
PanelClear_keepsOutput ==
  /\ PanelCall
  /\ lastOutput' = lastOutput
  /\ appended' = <<>>

\* clear()
PanelClear ==
  /\ PanelCall
  /\ lastOutput' = <<>>
  /\ appended' = <<>>

\* showInfo(message): append(`# ${message}`)
PanelShowInfo ==
  /\ PanelCall
  /\ \E message \in PanelMessages :
       LET text == <<"#", " ">> \o message IN
       /\ lastOutput' = PanelAppend(lastOutput, text)
       /\ appended' = Append(appended, text)

\* showError(message): append(`# ERROR: ${message}`); append('')
PanelShowError ==
  /\ PanelCall
  /\ \E message \in PanelMessages :
       LET text == <<"#"," ","E","R","R","O","R",":"," ">> \o message IN
       /\ lastOutput' = PanelAppend(PanelAppend(lastOutput, text), <<>>)
       /\ appended' = appended \o <<text, <<>> >>

\* showSeparator()
PanelShowSeparator ==
  /\ PanelCall
  /\ lastOutput' = ShowSeparator(lastOutput)
  /\ appended' = Append(appended, [k \in 1..RuleWidth |-> RuleChar])

\* showResult(request, result, prettyPrint)
PanelShowResult ==
  /\ PanelCall
  /\ \E pair \in SamplePairs, prettyPrint \in BOOLEAN :
       /\ lastOutput' = ShowResult(lastOutput, pair, prettyPrint)
       /\ appended' = appended
                      \o <<formatQueryResult(pair.request, pair.result, prettyPrint), <<>> >>

PanelNext ==
  \/ PanelDoAppend
  \/ PanelClear
  \/ PanelShowInfo
  \/ PanelShowError
  \/ PanelShowSeparator
  \/ PanelShowResult

\* ----------------------------------------------- parser.ts: findRequestAtLine
\* Mutant of findRequestAtLine: the last line of a span is not part of it.
RECURSIVE findRequestAtLine_exclusiveEnd(_, _)
findRequestAtLine_exclusiveEnd(reqs, line) ==
  IF reqs = <<>> THEN Null
  ELSE IF line >= Head(reqs).startLine /\ line < Head(reqs).endLine THEN Head(reqs)
  ELSE findRequestAtLine_exclusiveEnd(Tail(reqs), line)

\* findRequestAtLine(requests, line): the first request whose span holds the line.
RECURSIVE findRequestAtLine(_, _)
findRequestAtLine(reqs, line) ==
  IF reqs = <<>> THEN Null
  ELSE IF line >= Head(reqs).startLine /\ line <= Head(reqs).endLine THEN Head(reqs)
  ELSE findRequestAtLine(Tail(reqs), line)

\* Documents of request lines, comments, blank lines and body lines, and a
\* line number of each.
CursorLines ==
  { <<"G","E","T"," ","/","a">>, <<"#"," ","c">>, <<>>, <<"{","}">> }

CursorInputs ==
  UNION { { [content |-> JoinNl(d), line |-> l] :
              d \in [1..n -> CursorLines], l \in 0..(IF n = 0 THEN 0 ELSE n - 1) } :
          n \in 0..MaxLines }

\* findRequestAtLine(parseOsdevFile(uarg.content).requests, uarg.line), for a
\* line of the document.
CallFindRequestAtLine ==
  /\ upc = "call" /\ ufn = "findRequestAtLine"
  /\ uret' = findRequestAtLine(parseOsdevFile(uarg.content).requests, uarg.line)
  /\ upc' = "done"
  /\ UNCHANGED <<ufn, uarg, lastOutput, appended, pcalls>>
  /\ UNCHANGED <<pvars, evars, cvars>>

\* ------------------------------------------- commands: executeCurrentRequest
\* error.message of a parse error as text.
ParseErrorText(error) ==
  IF error.message = <<"Invalid JSON body: ", "SyntaxError">>
  THEN <<"I","n","v","a","l","i","d"," ","J","S","O","N"," ","b","o","d","y",":"," ","S","y","n","t","a","x","E","r","r","o","r">>
  ELSE <<"U","n","e","x","p","e","c","t","e","d"," ","t","e","x","t">>

\* showInfo(message)
ShowInfo(out, message) == PanelAppend(out, <<"#", " ">> \o message)

\* showError(message)
ShowError(out, message) ==
  PanelAppend(PanelAppend(out, <<"#"," ","E","R","R","O","R",":"," ">> \o message), <<>>)

\* for (const error of parseResult.errors)
\*   outputPanel.showError(`Line ${error.line + 1}: ${error.message}`)
RECURSIVE ShowParseErrors(_, _)
ShowParseErrors(out, errs) ==
  IF errs = <<>> THEN out
  ELSE ShowParseErrors(
         ShowError(out, <<"L","i","n","e"," ">> \o NatText(Head(errs).line + 1) \o <<":"," ">>
                        \o ParseErrorText(Head(errs))),
         Tail(errs))

\* `Executing ${request.method} ${request.path}...`
ExecutingText(req) ==
  <<"E","x","e","c","u","t","i","n","g"," ">> \o MethodText(req.method) \o <<" ">> \o req.path
  \o <<".",".",".">>

\* Documents for the command: request lines, a blank line, a valid body line
\* and a body line that is not JSON.
CommandLines ==
  { <<"G","E","T"," ","/","a">>, <<>>, <<"{","}">>, <<"}">> }

\* Results executeRequest may return: a 200 answer with a JSON body, and a
\* failure.
CommandResults ==
  { ResponseResult(200, <<"O","K">>, <<"{","\"","a","\"",":","1","}">>, 12),
    FailureResult(<<"t","i","m","e","d"," ","o","u","t">>, 12) }

\* The command's inputs: whether an .osdev editor is active and options were
\* obtained (ready), the document, the cursor line, and what the panel shows.
CommandInputs ==
  UNION { { [ready |-> r, content |-> JoinNl(d), line |-> l, panel |-> p] :
              r \in BOOLEAN,
              d \in [1..n -> CommandLines],
              l \in 0..(IF n = 0 THEN 0 ELSE n - 1),
              p \in PanelTexts } :
          n \in 0..MaxLines }

\* executeCurrentRequest up to its await of executeRequest: return without
\* an .osdev editor or without options; show the parse errors; look up the
\* request at the cursor and return with a warning when there is none;
\* otherwise show the progress line and call executeRequest. (The loop over
\* parseResult.errors does nothing when there are none.)
ExecuteCurrentBody(parseResult, found) ==
  IF ~uarg.ready
  THEN lastOutput' = lastOutput /\ uret' = Null /\ upc' = "done"
  ELSE IF found = Null
  THEN /\ lastOutput' = ShowParseErrors(lastOutput, parseResult.errors)
       /\ uret' = Null /\ upc' = "done"
  ELSE /\ lastOutput' = ShowInfo(ShowParseErrors(lastOutput, parseResult.errors),
                                 ExecutingText(found))
       /\ uret' = [request |-> found, result |-> Null]
       /\ upc' = "await"

\* const request = findRequestAtLine(parseResult.requests, cursorLine)
ExecuteCurrentParsed(parseResult) ==
  ExecuteCurrentBody(parseResult, findRequestAtLine(parseResult.requests, uarg.line))

\* const parseResult = parseOsdevFile(content), and the steps above
ExecuteCurrentStart ==
  /\ upc = "call" /\ ufn = "executeCurrentRequest"
  /\ ExecuteCurrentParsed(parseOsdevFile(uarg.content))
  /\ UNCHANGED <<ufn, uarg, appended, pcalls>>
  /\ UNCHANGED <<pvars, evars, cvars>>

\* Mutant of ExecuteCurrentResume: the result is shown without clearing.
ExecuteCurrentResume_noClear ==
  /\ upc = "await" /\ ufn = "executeCurrentRequest"
  /\ \E result \in CommandResults :
       /\ lastOutput' = ShowResult(lastOutput, [request |-> uret.request, result |-> result], TRUE)
       /\ uret' = [request |-> uret.request, result |-> result]
  /\ upc' = "done"
  /\ UNCHANGED <<ufn, uarg, appended, pcalls>>
  /\ UNCHANGED <<pvars, evars, cvars>>

\* executeCurrentRequest after executeRequest returned a result:
\* outputPanel.clear(); outputPanel.showResult(request, result)
ExecuteCurrentResume ==
  /\ upc = "await" /\ ufn = "executeCurrentRequest"
  /\ \E result \in CommandResults :
       /\ lastOutput' = ShowResult(<<>>, [request |-> uret.request, result |-> result], TRUE)
       /\ uret' = [request |-> uret.request, result |-> result]
  /\ upc' = "done"
  /\ UNCHANGED <<ufn, uarg, appended, pcalls>>
  /\ UNCHANGED <<pvars, evars, cvars>>

\* ------------------------------------------ connectionTypes: validateConnection
EndsWith(s, p) == Len(s) >= Len(p) /\ SubSeq(s, Len(s) - Len(p) + 1, Len(s)) = p

FtpPrefix == <<"f","t","p",":","/","/">>

\* new URL(url) for validateConnection: leading and trailing white space is
\* dropped, and a scheme other than http(s) is accepted.
NewUrl(url) ==
  LET t == Trim(url)
      p == ParseUrl(t)
  IN  IF p.ok THEN p
      ELSE IF StartsWith(t, FtpPrefix) /\ Len(t) > Len(FtpPrefix)
      THEN [ok |-> TRUE, protocol |-> "ftp:"]
      ELSE p

\* validateConnection(connection): the list of error messages. A field that
\* is unset and a field that is '' are both the empty text: every test here
\* is of the form !field?.trim() or field?.trim().
validateConnection(connection) ==
  LET name == IF Trim(connection.name) = <<>> THEN <<"Connection name is required">> ELSE <<>>
      url  == IF Trim(connection.url) = <<>> THEN <<"URL is required">>
              ELSE IF ~NewUrl(connection.url).ok THEN <<"Invalid URL format">>
              ELSE IF NewUrl(connection.url).protocol \notin {"http:", "https:"}
              THEN <<"URL must use http or https protocol">>
              ELSE <<>>
      auth == IF connection.authType = "" THEN <<"Authentication type is required">>
              ELSE IF connection.authType \notin {"basic", "aws-iam"}
              THEN <<"Invalid authentication type">>
              ELSE <<>>
      user == IF connection.authType = "basic" /\ Trim(connection.username) = <<>>
              THEN <<"Username is required for Basic Auth">> ELSE <<>>
      region == IF connection.authType = "aws-iam" /\ Trim(connection.awsRegion) = <<>>
                THEN <<"AWS region is required for IAM Auth">> ELSE <<>>
      ca   == IF /\ Trim(connection.caCertPath) # <<>>
                 /\ ~EndsWith(connection.caCertPath, <<".","p","e","m">>)
                 /\ ~EndsWith(connection.caCertPath, <<".","c","r","t">>)
              THEN <<"CA certificate path should end with .pem or .crt">> ELSE <<>>
  IN  name \o url \o auth \o user \o region \o ca

\* toStoredConnection(connection)
toStoredConnection(connection) ==
  [id |-> connection.id, name |-> connection.name, url |-> connection.url,
   authType |-> connection.authType, username |-> connection.username,
   awsRegion |-> connection.awsRegion, awsProfile |-> connection.awsProfile,
   sslVerify |-> connection.sslVerify, caCertPath |-> connection.caCertPath]

\* ------------------------------------------ connectionManager.ts
\* An argument that was not passed.
NotPassed == [has |-> FALSE, value |-> <<>>]
Passed(text) == [has |-> TRUE, value |-> text]

\* The secret storage keys of a connection.
getPasswordKey(id) == <<"osdev.password.", id>>
getAwsAccessKeyKey(id) == <<"osdev.awsAccessKey.", id>>
getAwsSecretKeyKey(id) == <<"osdev.awsSecretKey.", id>>

\* What an awaited call does to the stores when it takes effect.
Effect(kind, key, value, conns, id) ==
  [kind |-> kind, key |-> key, value |-> value, conns |-> conns, id |-> id]

\* config.update(CONNECTIONS_KEY, connections, Global)
UpdateConnections(conns) == Effect("connections", <<>>, <<>>, conns, 0)
\* context.secrets.store(key, value)
SecretStore(key, value) == Effect("store", key, value, <<>>, 0)
\* context.secrets.delete(key)
SecretDelete(key) == Effect("delete", key, <<>>, <<>>, 0)
\* setActiveConnection(id): config.update(ACTIVE_CONNECTION_KEY, id || '', Global)
SetActive(id) == Effect("active", <<>>, <<>>, <<>>, id)

\* connections.findIndex((c) => c.id === id), 1-based, 0 for -1
FindIndex(conns, id) ==
  IF \E n \in 1..Len(conns) : conns[n].id = id
  THEN CHOOSE n \in 1..Len(conns) : conns[n].id = id /\ \A m \in 1..(n - 1) : conns[m].id # id
  ELSE 0

\* connections.splice(index, 1)
Splice(conns, index) ==
  [n \in 1..(Len(conns) - 1) |-> IF n < index THEN conns[n] ELSE conns[n + 1]]

\* { ...existing, ...updates }
Merge(existing, updates) ==
  [f \in DOMAIN existing |-> IF f \in DOMAIN updates THEN updates[f] ELSE existing[f]]

\* The calls that have not returned or thrown.
Running == {k \in 1..Len(ccalls) : ccalls[k].pc = "await"}

\* The calls awaiting their update of the connections setting.
UpdatingConnections ==
  {k \in Running : Head(ccalls[k].todo).kind = "connections"}

\* A call as it starts: the method, the id it is about, its arguments, the
\* awaited calls its body makes one after the other (todo), the local
\* connections array, and what the stores held when it started (history).
Call(op, id, arg, conns, todo) ==
  [op |-> op, id |-> id, arg |-> arg, connections |-> conns, todo |-> todo,
   pc |-> IF todo = <<>> THEN "threw" ELSE "await",
   stage |-> "body", activated |-> FALSE,
   alone |-> Running = {}, during |-> UpdatingConnections,
   was |-> [connections |-> storedConnections, active |-> activeConnectionId]]

\* A connection as handed to addConnection (no id yet).
Conn(name, url, authType, username, awsRegion) ==
  [id |-> 0, name |-> name, url |-> url, authType |-> authType, username |-> username,
   awsRegion |-> awsRegion, awsProfile |-> <<>>, sslVerify |-> TRUE, caCertPath |-> <<>>]

\* Arguments of addConnection: a valid connection with Basic Auth and one
\* whose name is blank, both with a password.
AddInputs ==
  { [connection |-> c,
     secrets |-> [password |-> Passed(<<"p">>), awsAccessKey |-> NotPassed,
                  awsSecretKey |-> NotPassed]] :
      c \in { Conn(<<"a">>, UrlHttp, "basic", <<"u">>, <<>>),
              Conn(<<" ">>, UrlHttp, "basic", <<"u">>, <<>>) } }

\* Arguments of updateConnection: a new name with the password removed, and
\* a blank name with a new password.
UpdateInputs ==
  { [updates |-> [name |-> <<"c">>],
     secrets |-> [password |-> Passed(<<>>), awsAccessKey |-> NotPassed,
                  awsSecretKey |-> NotPassed]],
    [updates |-> [name |-> <<>>],
     secrets |-> [password |-> Passed(<<"q">>), awsAccessKey |-> NotPassed,
                  awsSecretKey |-> NotPassed]] }

\* The ids a caller may name: those of the calls made so far (the ids uuidv4
\* gave to addConnection calls, and ids never given to a connection) and one
\* more that no connection has.
ConnIds == 1..(Len(ccalls) + 1)

\* A store with no connection, no active connection and no secret, and no
\* call made.
ConnInit ==
  /\ storedConnections = <<>>
  /\ activeConnectionId = 0
  /\ secrets = {}
  /\ ccalls = <<>>

ConnIdle == ConnInit

\* A method is called: it runs to its first await (or throws) without
\* touching the stores.
ConnCall(call) ==
  /\ Len(ccalls) < MaxConnCalls
  /\ ccalls' = Append(ccalls, call)
  /\ UNCHANGED <<storedConnections, activeConnectionId, secrets>>
  /\ UNCHANGED <<pvars, evars, uvars>>

\* if (password) await secrets.store(...); likewise the two AWS keys
AddSecretEffects(id, s) ==
  (IF s.password.has /\ s.password.value # <<>>
   THEN <<SecretStore(getPasswordKey(id), s.password.value)>> ELSE <<>>)
  \o (IF s.awsAccessKey.has /\ s.awsAccessKey.value # <<>>
      THEN <<SecretStore(getAwsAccessKeyKey(id), s.awsAccessKey.value)>> ELSE <<>>)
  \o (IF s.awsSecretKey.has /\ s.awsSecretKey.value # <<>>
      THEN <<SecretStore(getAwsSecretKeyKey(id), s.awsSecretKey.value)>> ELSE <<>>)

\* Mutant of ConnAddCall: the connection is stored without validation.
ConnAddCall_noValidation ==
  \E input \in AddInputs :
    LET connection == input.connection
        s == input.secrets
        id == Len(ccalls) + 1
        connections == Append(storedConnections,
                              toStoredConnection([connection EXCEPT !.id = id]))
    IN  ConnCall(Call("add", id, connection, connections,
                      <<UpdateConnections(connections)>> \o AddSecretEffects(id, s)))

\* addConnection(connection, password, awsAccessKey, awsSecretKey) up to its
\* first await: validate (throw on errors), take a fresh id from uuidv4, read
\* the stored list, push the new connection and call config.update.
ConnAddCall ==
  \E input \in AddInputs :
    LET connection == input.connection
        s == input.secrets
        id == Len(ccalls) + 1
        connections == Append(storedConnections,
                              toStoredConnection([connection EXCEPT !.id = id]))
    IN  IF Len(validateConnection(connection)) > 0
        THEN ConnCall(Call("add", id, connection, <<>>, <<>>))
        ELSE ConnCall(Call("add", id, connection, connections,
                           <<UpdateConnections(connections)>> \o AddSecretEffects(id, s)))

\* if (password !== undefined) { if (password) store else delete }; likewise
\* the two AWS keys
UpdateSecretEffects(id, s) ==
  LET one(arg, key) == IF ~arg.has THEN <<>>
                       ELSE IF arg.value # <<>> THEN <<SecretStore(key, arg.value)>>
                       ELSE <<SecretDelete(key)>>
  IN  one(s.password, getPasswordKey(id)) \o one(s.awsAccessKey, getAwsAccessKeyKey(id))
      \o one(s.awsSecretKey, getAwsSecretKeyKey(id))

\* updateConnection(id, updates, password, awsAccessKey, awsSecretKey) up to
\* its first await: read the stored list, throw when the id is not in it,
\* merge, validate (throw on errors), replace the entry and call
\* config.update.
ConnUpdateCall ==
  \E id \in ConnIds, input \in UpdateInputs :
    LET updates == input.updates
        s == input.secrets
        index == FindIndex(storedConnections, id)
        updated == Merge(storedConnections[index], updates)
        connections == [storedConnections EXCEPT ![index] = updated]
    IN  IF index = 0
        THEN ConnCall(Call("update", id, updates, <<>>, <<>>))
        ELSE IF Len(validateConnection(updated)) > 0
        THEN ConnCall(Call("update", id, updates, <<>>, <<>>))
        ELSE ConnCall(Call("update", id, updates, connections,
                           <<UpdateConnections(connections)>> \o UpdateSecretEffects(id, s)))

\* deleteConnection(id) up to its first await: read the stored list, throw
\* when the id is not in it, splice the entry out and call config.update;
\* the three secrets are deleted after it.
ConnDeleteCall ==
  \E id \in ConnIds :
    LET index == FindIndex(storedConnections, id)
        connections == Splice(storedConnections, index)
    IN  IF index = 0
        THEN ConnCall(Call("delete", id, <<>>, <<>>, <<>>))
        ELSE ConnCall(Call("delete", id, <<>>, connections,
                           << UpdateConnections(connections),
                              SecretDelete(getPasswordKey(id)),
                              SecretDelete(getAwsAccessKeyKey(id)),
                              SecretDelete(getAwsSecretKeyKey(id)) >>))

\* The stores after an awaited call took effect.
ApplyConnections(effect) ==
  IF effect.kind = "connections" THEN effect.conns ELSE storedConnections

ApplyActive(effect) ==
  IF effect.kind = "active" THEN effect.id ELSE activeConnectionId

ApplySecrets(effect) ==
  IF effect.kind = "store"
  THEN {e \in secrets : e.key # effect.key} \cup {[key |-> effect.key, value |-> effect.value]}
  ELSE IF effect.kind = "delete"
  THEN {e \in secrets : e.key # effect.key}
  ELSE secrets

\* What a call does once the last awaited call of its body has resolved:
\* addConnection activates its connection if (connections.length === 1);
\* deleteConnection, if (this.getActiveConnectionId() === id), activates
\* connections[0]?.id or nothing; updateConnection only fires events.
\* The result is the id to hand to setActiveConnection, or -1 for no call.
\* Mutant of AfterBody: deleteConnection leaves the active id alone.
AfterBody_deleteKeepsActive(call, active) ==
  IF call.op = "add" /\ Len(call.connections) = 1 THEN call.id ELSE -1

AfterBody(call, active) ==
  IF call.op = "add" /\ Len(call.connections) = 1 THEN call.id
  ELSE IF call.op = "delete" /\ active = call.id
  THEN (IF Len(call.connections) > 0 THEN call.connections[1].id ELSE 0)
  ELSE -1

\* The awaited call of a running method takes effect and the method runs on
\* to its next await or to its return.
ConnResume ==
  \E k \in Running :
    LET call   == ccalls[k]
        effect == Head(call.todo)
        rest   == Tail(call.todo)
        next   == AfterBody(call, ApplyActive(effect))
    IN  /\ storedConnections' = ApplyConnections(effect)
        /\ activeConnectionId' = ApplyActive(effect)
        /\ secrets' = ApplySecrets(effect)
        /\ ccalls' =
             [ccalls EXCEPT ![k] =
                IF rest # <<>> THEN [call EXCEPT !.todo = rest]
                ELSE IF call.stage = "body" /\ next # -1
                THEN [call EXCEPT !.todo = <<SetActive(next)>>, !.stage = "active",
                                  !.activated = TRUE]
                ELSE [call EXCEPT !.todo = <<>>, !.pc = "done"]]
        /\ UNCHANGED <<pvars, evars, uvars>>

ConnNext ==
  \/ ConnAddCall
  \/ ConnUpdateCall
  \/ ConnDeleteCall
  \/ ConnResume

\* -------------------------------------------------------- helper calls
UtilInit ==
  /\ \/ ufn = "isHttpMethod" /\ uarg \in MethodWords
     \/ ufn = "parseRequestLine" /\ uarg \in LineInputs
     \/ ufn = "getPathWithoutQuery" /\ uarg \in PathInputs
     \/ ufn = "getQueryParams" /\ uarg \in PathInputs
     \/ ufn = "formatQueryResult" /\ uarg \in FormatInputs
     \/ ufn = "buildRequestUrl" /\ uarg \in UrlInputs
     \/ ufn = "testConnection" /\ uarg \in TestInputs
     \/ ufn = "findRequestAtLine" /\ uarg \in CursorInputs
     \/ ufn = "executeCurrentRequest" /\ uarg \in CommandInputs
     \/ ufn = "getAuthHeaders" /\ uarg \in AuthInputs
     \/ ufn = "requestHeaders" /\ uarg \in AuthInputs
     \/ /\ ufn = "showResults"
        /\ uarg \in {[results |-> ps, prettyPrint |-> pp, panel |-> t] :
                       ps \in PairBatches, pp \in BOOLEAN, t \in PanelTexts}
     \/ /\ ufn = "executeAllRequests"
        /\ uarg \in {[results |-> ps, ready |-> rd, panel |-> t] :
                       ps \in PairBatches, rd \in BOOLEAN, t \in PanelTexts}
  /\ lastOutput = IF ufn \in {"showResults", "executeAllRequests", "executeCurrentRequest"}
                  THEN uarg.panel ELSE <<>>
  /\ appended = <<>>
  /\ pcalls = 0
  /\ uret = Null
  /\ upc = "call"

UtilNext ==
  \/ CallIsHttpMethod
  \/ CallParseRequestLine
  \/ CallGetPathWithoutQuery
  \/ CallGetQueryParams
  \/ CallFormatQueryResult
  \/ CallBuildRequestUrl
  \/ CallTestConnection
  \/ CallFindRequestAtLine
  \/ ExecuteCurrentStart
  \/ ExecuteCurrentResume
  \/ CallGetAuthHeaders
  \/ CallRequestHeaders
  \/ CallShowResults
  \/ CallExecuteAllRequests

\* The parser run on one document.
InitParse == ParseInit /\ ExecIdle /\ UtilIdle /\ ConnIdle

SpecParse == InitParse /\ [][ParseNext]_vars

\* executeRequests run on one batch with one set of options.
InitExec == ExecInit /\ ParseIdle /\ UtilIdle /\ ConnIdle

SpecExec == InitExec /\ [][ExecNext]_vars
\* The same run in which a step that can be taken is eventually taken: a
\* handler whose event has happened runs, a timer that is armed fires, a
\* caller whose promise is settled is resumed.
SpecExecLive == SpecExec /\ WF_vars(ExecNext)


\* One OutputPanel from its construction on.
InitPanel == PanelInit /\ ParseIdle /\ ExecIdle /\ ConnIdle

SpecPanel == InitPanel /\ [][PanelNext]_vars

\* One ConnectionManager over an empty store; its methods may be called
\* while earlier calls are still awaiting.
InitConn == ConnInit /\ ParseIdle /\ ExecIdle /\ UtilIdle

SpecConn == InitConn /\ [][ConnNext]_vars

\* One call of an exported helper of parser.ts on one argument.
InitUtil == UtilInit /\ ParseIdle /\ ExecIdle /\ ConnIdle

SpecUtil == InitUtil /\ [][UtilNext]_vars

\* ------------------------------------------------- parser: claims C1..C4
\* What the document says, read off the lines without running the parser.

\* 0-based indices of the lines that are request lines and not comments.
RequestLineIdx ==
  {k \in 0..(Len(lines) - 1) : ~isComment(lines[k + 1]) /\ isRequestLine(lines[k + 1])}

\* Index of the first request line after line k, or the line count.
RECURSIVE NextRequestLine(_)
NextRequestLine(k) ==
  IF k + 1 >= Len(lines) THEN Len(lines)
  ELSE IF ~isComment(lines[k + 2]) /\ isRequestLine(lines[k + 2]) THEN k + 1
  ELSE NextRequestLine(k + 1)

\* The non-comment lines with 0-based index in a..b, in order.
RECURSIVE NonCommentLines(_, _)
NonCommentLines(a, b) ==
  IF a > b THEN <<>>
  ELSE (IF isComment(lines[a + 1]) THEN <<>> ELSE <<lines[a + 1]>>)
       \o NonCommentLines(a + 1, b)

\* The body text that belongs to the request line at index k.
DocumentBody(k) == Trim(JoinNl(NonCommentLines(k + 1, NextRequestLine(k) - 1)))

\* Positions in requests of the requests whose body is not valid JSON.
InvalidBodyReqs ==
  {n \in 1..Len(requests) : requests[n].hasBody /\ ~JsonParses(requests[n].body)}

\* C1: parseOsdevFile emits exactly one request per non-comment request line,
\* in document order: the n-th request carries the method, path and line index
\* of the n-th such line; with no request line both lists are empty.
C1_OneRequestPerRequestLine ==
  ppc = "done" =>
    LET idx == RequestLineIdx IN
    /\ Len(requests) = Cardinality(idx)
    /\ \A n \in 1..Len(requests) :
         LET k == requests[n].startLine IN
         /\ k \in idx
         /\ Cardinality({j \in idx : j < k}) = n - 1
         /\ requests[n].method = parseRequestLine(lines[k + 1]).method
         /\ requests[n].path = parseRequestLine(lines[k + 1]).path
    /\ (idx = {} => requests = <<>> /\ errors = <<>>)

\* Two requests with different methods have been emitted from a document that
\* also holds a line that is no request line.
C1_Witness ==
  /\ ppc = "done"
  /\ Len(requests) = 2
  /\ requests[1].method = "POST" /\ requests[2].method = "GET"
  /\ Len(lines) > 2

C3_InvalidBodyStillEmitted ==
  ppc = "done" =>
    LET idx == RequestLineIdx IN
    /\ \A k \in idx :
         \E n \in 1..Len(requests) :
           /\ requests[n].startLine = k
           /\ requests[n].body = DocumentBody(k)
           /\ requests[n].hasBody = (DocumentBody(k) # <<>>)
    /\ Len(requests) = Cardinality(idx)
    /\ Len(errors) = Cardinality(InvalidBodyReqs)

\* A request with an invalid body was emitted, followed by another request.
C3_Witness ==
  /\ ppc = "done"
  /\ Len(requests) = 2
  /\ 1 \in InvalidBodyReqs
  /\ requests[1].body = <<"{">>
  /\ Len(errors) = 1

\* C4: each request has startLine <= endLine, and consecutive requests do not
\* overlap: r.endLine < s.startLine.
C4_SpansOrdered ==
  /\ \A n \in 1..Len(requests) : requests[n].startLine <= requests[n].endLine
  /\ \A n \in 1..(Len(requests) - 1) : requests[n].endLine < requests[n + 1].startLine

\* Two requests, the first spanning more than its request line.
C4_Witness ==
  /\ ppc = "done"
  /\ Len(requests) = 2
  /\ requests[1].startLine < requests[1].endLine
  /\ requests[1].endLine + 1 = requests[2].startLine

\* ----------------------------------------------- executor: claims C5..C10
\* The calls of executeRequest that have returned, and what each returned.
Returned == 1..Len(execLog)

ResultOf(k) == execLog[k].result

\* C5: executeRequest never throws or rejects; an invalid URL, an auth
\* configuration error, an unreadable CA file, a transport error and a timeout
\* each end in a returned result with success = false, statusCode = 0 and
\* error set.
C5_FailuresAreReturned ==
  /\ epc # "rejected"
  /\ ret # Null => ret.kind = "returned"
  /\ \A k \in Returned :
       cause[k] \in {"invalid_url", "auth", "ca", "transport", "timeout"} =>
         /\ ResultOf(k).success = FALSE
         /\ ResultOf(k).statusCode = 0
         /\ ResultOf(k).hasError
         /\ ResultOf(k).error.text # ""

\* One batch in which a call failed before dispatch (the signer rejected) and
\* the next call timed out.
C5_Witness ==
  /\ epc = "done"
  /\ Len(execLog) = 2
  /\ cause[1] = "auth"
  /\ cause[2] = "timeout"

\* C6: the caller is resumed once per call, with the result of the first of
\* {response end, request error, timeout} to occur; events that occur
\* afterwards change neither the returned result nor the collected one.
C6_FirstEventWins ==
  /\ \A k \in Calls : Cardinality({j \in Returned : execLog[j].call = k}) <= 1
  /\ \A k \in Returned :
       cause[k] \in {"response", "transport", "timeout"} =>
         /\ execLog[k].call = k
         /\ first[k].set
         /\ ResultOf(k) = first[k].value
         /\ k <= Len(results) => results[k] = first[k].value

\* The first call timed out and returned, and afterwards the error raised by
\* destroying its request was delivered.
C6_Witness ==
  /\ Len(results) >= 1
  /\ cause[1] = "timeout"
  /\ conn[1].st = "closed"

C8_SuccessIff2xx ==
  \A k \in Returned :
    ResultOf(k).success <=>
      (cause[k] = "response" /\ conn[k].statusCode >= 200 /\ conn[k].statusCode < 300)

\* One response with status 200 and one with status 300 have been returned.
C8_Witness ==
  /\ Len(execLog) = 2
  /\ cause[1] = "response" /\ conn[1].statusCode = 200 /\ ResultOf(1).success
  /\ cause[2] = "response" /\ conn[2].statusCode = 300 /\ ~ResultOf(2).success

\* C9: error is set iff no response completed; with error set statusCode is 0;
\* a completed response of any status leaves error unset and keeps the status,
\* the body, and json when the body parses.
C9_ErrorIffNoResponse ==
  \A k \in Returned :
    /\ ResultOf(k).hasError <=> cause[k] # "response"
    /\ ResultOf(k).hasError => ResultOf(k).statusCode = 0
    /\ cause[k] = "response" =>
         /\ ~ResultOf(k).hasError
         /\ ResultOf(k).statusCode = conn[k].statusCode
         /\ ResultOf(k).body = ConcatChunks(conn[k].chunks)
         /\ ResultOf(k).hasJson <=> JsonParses(ConcatChunks(conn[k].chunks))

\* A 404 response with a JSON body has been returned.
C9_Witness ==
  /\ Len(execLog) >= 1
  /\ cause[1] = "response"
  /\ conn[1].statusCode = 404
  /\ ResultOf(1).body = <<"{","}">>
  /\ ResultOf(1).hasJson

\* C10: executeRequests returns one result per request, results[i] being the
\* outcome of executing requests[i], and runs every request whatever the
\* earlier outcomes.
C10_OneResultPerRequest ==
  epc = "done" =>
    /\ Len(results) = Len(ereqs)
    /\ Len(execLog) = Len(ereqs)
    /\ \A n \in 1..Len(ereqs) :
         /\ execLog[n].call = n
         /\ execLog[n].request = ereqs[n]
         /\ results[n] = execLog[n].result

\* A batch of two whose first request failed and whose second succeeded.
C10_Witness ==
  /\ epc = "done"
  /\ Len(ereqs) = 2
  /\ ereqs[1] # ereqs[2]
  /\ results[1].hasError
  /\ results[2].success

\* --------------------------------------------- executor: claims C11..C12
\* The request of call k is on the wire: created and neither answered to the
\* end, failed nor destroyed.
InFlight(k) == conn[k].st \in {"sent", "response"}

\* The calls whose result has been produced.
Produced == {execLog[j].call : j \in Returned}

\* C11: during one executeRequests call at most one request is in flight, and
\* the request of call k + 1 is dispatched only after call k has produced its
\* result and that result has been collected.
C11_OneInFlight ==
  /\ Cardinality({k \in Calls : InFlight(k)}) <= 1
  /\ \A k \in Calls :
       (k <= bi /\ k > 1) =>
         /\ (k - 1) \in Produced
         /\ ~InFlight(k - 1)
         /\ Len(results) >= k - 1
  /\ \A k \in Calls : conn[k].st # "none" => k <= bi

\* The second request is on the wire after the first was answered.
C11_Witness ==
  /\ Len(ereqs) = 2
  /\ conn[1].st = "ended"
  /\ InFlight(2)

\* The options with which a call cannot get past its configuration: Basic auth
\* without username or password, IAM auth without region, or an https URL
\* with a CA file that cannot be read.
ConfigError(opts) ==
  \/ opts.authType = "basic" /\ (~opts.hasUsername \/ ~opts.hasPassword)
  \/ opts.authType = "aws-iam" /\ ~opts.hasRegion
  \/ StartsWith(opts.url, HttpsPrefix) /\ opts.ca = "unreadable"

\* C12: with such options every call of executeRequest returns a result with
\* error set and success = false, and no request is ever dispatched.
C12_ConfigErrorNoDispatch ==
  ConfigError(eopts) =>
    /\ \A k \in Calls : conn[k].st = "none"
    /\ \A k \in Returned :
         /\ cause[k] \in {"auth", "ca"}
         /\ ResultOf(k).hasError
         /\ ResultOf(k).error.text # ""
         /\ ResultOf(k).success = FALSE
         /\ execLog[k].call = k
    /\ epc \notin {"await", "rejected"}

\* A batch of two run with an unreadable CA file for an https URL is done.
C12_Witness ==
  /\ epc = "done"
  /\ Len(results) = 2
  /\ eopts.ca = "unreadable"
  /\ cause[1] = "ca" /\ cause[2] = "ca"
  /\ ~results[2].success /\ results[2].hasError

\* ----------------------------------------------- parser: claims C13..C18
\* The text with every comment line deleted.
DeleteComments(text) ==
  JoinNl(SelectSeq(SplitNl(text), LAMBDA l : ~isComment(l)))

\* The parse of the text without its comment lines.
Uncommented == parseOsdevFile(DeleteComments(content))

\* Same requests, line numbers apart.
SameRequests(rs, qs) ==
  /\ Len(rs) = Len(qs)
  /\ \A n \in 1..Len(rs) :
       /\ rs[n].method = qs[n].method
       /\ rs[n].path = qs[n].path
       /\ rs[n].hasBody = qs[n].hasBody
       /\ rs[n].body = qs[n].body

\* No comment line is part of a body, opened a request or closed one.
CommentFrame ==
  /\ \A b \in 1..Len(bodyLines) : ~isComment(bodyLines[b])
  /\ currentRequest # Null => ~isComment(lines[currentRequest.startLine + 1])
  /\ \A n \in 1..Len(requests) :
       /\ ~isComment(lines[requests[n].startLine + 1])
       /\ requests[n].endLine + 1 < Len(lines) =>
            ~isComment(lines[requests[n].endLine + 2])

\* C13 (as stated): a comment line is never appended to a body, never opens
\* and never finalizes a request, and the methods, paths, bodies and errors of
\* the result are those of the text with the comment lines deleted.
C13_CommentsTransparent_stated ==
  /\ CommentFrame
  /\ ppc = "done" =>
       /\ SameRequests(requests, Uncommented.requests)
       /\ errors = Uncommented.errors

\* C13 (amended): a comment line is never appended to a body, never opens and
\* never finalizes a request, and the methods, paths and bodies of the
\* requests and the messages of the errors are those of the text with the
\* comment lines deleted; the line of an error is counted in the text as
\* given.
C13_CommentsTransparent ==
  /\ CommentFrame
  /\ ppc = "done" =>
       /\ SameRequests(requests, Uncommented.requests)
       /\ Len(errors) = Len(Uncommented.errors)
       /\ \A e \in 1..Len(errors) :
            errors[e].message = Uncommented.errors[e].message

\* A comment line between the two lines of a body: the body is "{\n}".
C13_Witness ==
  /\ ppc = "done"
  /\ Len(lines) = 4
  /\ isComment(lines[3])
  /\ Len(requests) = 1
  /\ requests[1].body = <<"{", "\n", "}">>
  /\ errors = <<>>

\* C14: the endLine of a request followed by another request line is the
\* index of the line just before that request line, and the endLine of the
\* last request is the last line index; comment and blank lines that trail a
\* request lie within its span.
C14_EndLine ==
  /\ \A n \in 1..Len(requests) :
       requests[n].endLine = NextRequestLine(requests[n].startLine) - 1
  /\ ppc = "done" /\ requests # <<>> =>
       requests[Len(requests)].endLine = Len(lines) - 1

\* A request trailed by a comment line and then another request line, and a
\* last request trailed by a blank line.
C14_Witness ==
  /\ ppc = "done"
  /\ Len(lines) = 4
  /\ isComment(lines[2]) /\ isBlankLine(lines[4])
  /\ Len(requests) = 2
  /\ requests[1].startLine = 0 /\ requests[1].endLine = 1
  /\ requests[2].startLine = 2 /\ requests[2].endLine = 3

\* Line k (0-based) is body content: not blank, not a comment, not a request
\* line.
IsContentLine(k) ==
  /\ ~isBlankLine(lines[k + 1])
  /\ ~isComment(lines[k + 1])
  /\ ~isRequestLine(lines[k + 1])

\* C15: an emitted request has a body iff a content line lies between its
\* request line and the next request line or the end of input; a body is
\* non-empty and neither starts nor ends with whitespace.
C15_BodyIffContent ==
  \A n \in 1..Len(requests) :
    LET k == requests[n].startLine IN
    /\ requests[n].hasBody <=>
         \E j \in (k + 1)..(NextRequestLine(k) - 1) : IsContentLine(j)
    /\ requests[n].hasBody =>
         /\ requests[n].body # <<>>
         /\ requests[n].body[1] \notin WS
         /\ requests[n].body[Len(requests[n].body)] \notin WS
    /\ ~requests[n].hasBody => requests[n].body = <<>>

\* A request without body although a blank line follows it, and a request
\* with a body.
C15_Witness ==
  /\ ppc = "done"
  /\ Len(requests) = 2
  /\ requests[1].endLine > requests[1].startLine
  /\ isBlankLine(lines[2])
  /\ ~requests[1].hasBody
  /\ requests[2].hasBody
  /\ requests[2].body = <<"{">>

\* The lines without the blank lines at their head.
RECURSIVE DropLeadingBlank(_)
DropLeadingBlank(ls) ==
  IF ls = <<>> THEN ls
  ELSE IF isBlankLine(Head(ls)) THEN DropLeadingBlank(Tail(ls)) ELSE ls

\* C16: while a request is open, bodyLines holds the non-comment lines seen
\* since the request line without the blank lines that came before any body
\* content: those are discarded, later blank lines are kept; and a blank line
\* between two body lines appears in the emitted body.
C16_BlankLines ==
  /\ (ppc = "loop" /\ currentRequest # Null) =>
       bodyLines = DropLeadingBlank(NonCommentLines(currentRequest.startLine + 1, i - 1))
  /\ \A n \in 1..Len(requests) :
       LET k == requests[n].startLine IN
       requests[n].body =
         Trim(JoinNl(DropLeadingBlank(NonCommentLines(k + 1, NextRequestLine(k) - 1))))

\* A blank line after the request line was discarded, and the blank line that
\* follows the first body line was kept.
C16_Witness ==
  /\ ppc = "loop" /\ i = 4
  /\ currentRequest # Null /\ currentRequest.startLine = 0
  /\ isBlankLine(lines[2]) /\ isBlankLine(lines[4])
  /\ bodyLines = << <<"{">>, <<>> >>

\* The loop is at a line that is neither a comment nor a request line.
AtOther ==
  /\ ppc = "loop" /\ i < Len(lines)
  /\ ~isComment(lines[i + 1])
  /\ ~isRequestLine(lines[i + 1])

\* C17: a non-comment line that is no request line (a bare method token
\* included) neither opens nor finalizes a request and raises no error; with
\* no request open nothing changes, with a request open the line is added to
\* the body text (a blank line before any body content leaves it empty,
\* which is the same body text once trimmed).
C17_OtherLines ==
  [][AtOther =>
       /\ UNCHANGED <<currentRequest, requests, errors>>
       /\ currentRequest = Null => UNCHANGED bodyLines
       /\ currentRequest # Null =>
            /\ Trim(JoinNl(bodyLines')) = Trim(JoinNl(Append(bodyLines, lines[i + 1])))
            /\ ~isBlankLine(lines[i + 1]) => bodyLines' = Append(bodyLines, lines[i + 1])
    ]_vars

\* A bare method token before any request was ignored, and the same token
\* after a request line became that request's body.
C17_Witness ==
  /\ ppc = "done"
  /\ Len(lines) = 3
  /\ lines[1] = <<"G","E","T">> /\ lines[3] = <<"G","E","T">>
  /\ Len(requests) = 1
  /\ requests[1].startLine = 1
  /\ requests[1].body = <<"G","E","T">>

\* ------------------------------------- parser.ts helpers: claims C18..C20
\* The maximal runs of non-whitespace characters of s, in order.
RECURSIVE Words(_)
Words(s) ==
  IF s = <<>> THEN <<>>
  ELSE IF s[1] \in WS THEN Words(Tail(s))
  ELSE LET n == RunLen(s, 1, FALSE) IN
       <<SubSeq(s, 1, n)>> \o Words(SubSeq(s, n + 1, Len(s)))

\* The six method tokens and their spelling.
MethodSpelling ==
  [GET    |-> <<"G","E","T">>,
   POST   |-> <<"P","O","S","T">>,
   PUT    |-> <<"P","U","T">>,
   DELETE |-> <<"D","E","L","E","T","E">>,
   HEAD   |-> <<"H","E","A","D">>,
   PATCH  |-> <<"P","A","T","C","H">>]

SixTokens == {MethodSpelling[m] : m \in DOMAIN MethodSpelling}

QueryPairs ==
  LET q == IndexOf(uarg, "?", 1) IN
  IF q = 0 THEN <<>> ELSE Split(SubSeq(uarg, q + 1, Len(uarg)), "&")

\* A pair cut at its first '=': the text before it and all the text after it.
KeyText(pair) ==
  LET k == IndexOf(pair, "=", 1) IN
  IF k = 0 THEN pair ELSE SubSeq(pair, 1, k - 1)
ValueText(pair) ==
  LET k == IndexOf(pair, "=", 1) IN
  IF k = 0 THEN <<>> ELSE SubSeq(pair, k + 1, Len(pair))

\* The call of getQueryParams has returned a Map.
ParamsReturned == upc = "done" /\ ufn = "getQueryParams" /\ ~uret.threw

\* C19: each pair is cut at its first '=': the (decoded) text before it is a
\* key of the Map, and the last pair with that key gives it as value the
\* (decoded) text after that '=', all of it, or the empty string when the
\* pair has no '='.
C19_SplitAtFirstEquals ==
  ParamsReturned =>
    \A n \in 1..Len(QueryPairs) :
      LET key == decodeURIComponent(KeyText(QueryPairs[n])).text
          val == decodeURIComponent(ValueText(QueryPairs[n])).text
      IN  KeyText(QueryPairs[n]) # <<>> =>
            /\ MapIndex(uret.params, key) # 0
            /\ (\A h \in (n + 1)..Len(QueryPairs) :
                  decodeURIComponent(KeyText(QueryPairs[h])).text # key)
                 => uret.params[MapIndex(uret.params, key)].value = val

\* The sequence without the later occurrences of its elements.
RECURSIVE FirstOccurrences(_)
FirstOccurrences(ks) ==
  IF ks = <<>> THEN <<>>
  ELSE LET r == FirstOccurrences(SubSeq(ks, 1, Len(ks) - 1))
           k == ks[Len(ks)]
       IN  IF \E n \in 1..Len(r) : r[n] = k THEN r ELSE Append(r, k)

\* The pairs with a key, and the key of each.
KeyedPairs == SelectSeq(QueryPairs, LAMBDA pr : KeyText(pr) # <<>>)
KeysInOrder == [n \in 1..Len(KeyedPairs) |-> decodeURIComponent(KeyText(KeyedPairs[n])).text]

\* The value a pair maps its key to when it is the only pair.
OwnValue(pair) == getQueryParams(<<"?">> \o pair).params[1].value

\* C20: the keys of the Map come in the order of their first occurrence in
\* the query string, and the value of a key that occurs more than once is
\* that of its last occurrence.
C20_FirstOrderLastValue ==
  ParamsReturned =>
    /\ [n \in 1..Len(uret.params) |-> uret.params[n].key] = FirstOccurrences(KeysInOrder)
    /\ \A n \in 1..Len(KeyedPairs) :
         (\A h \in (n + 1)..Len(KeyedPairs) : KeysInOrder[h] # KeysInOrder[n]) =>
           uret.params[MapIndex(uret.params, KeysInOrder[n])].value = OwnValue(KeyedPairs[n])

\* "/p?a=1&b=2&a": the keys are a, b and a maps to the empty string.
C20_Witness ==
  /\ ParamsReturned
  /\ uarg = <<"/","p","?","a","=","1","&","b","=","2","&","a">>
  /\ uret.params = << [key |-> <<"a">>, value |-> <<>>],
                      [key |-> <<"b">>, value |-> <<"2">>] >>

\* ------------------------------------- parser.ts helpers: claims C21
\* The path has a '?'; the text before the first one and the text after it.
HasMark(path) == \E n \in 1..Len(path) : path[n] = "?"
FirstMark(path) == CHOOSE n \in 1..Len(path) : path[n] = "?" /\ \A h \in 1..(n - 1) : path[h] # "?"
BeforeMark(path) == SubSeq(path, 1, FirstMark(path) - 1)
AfterMark(path) == SubSeq(path, FirstMark(path) + 1, Len(path))

\* C21: getPathWithoutQuery returns the text before the first '?' of the
\* path, or the whole path when it has none; getQueryParams returns the empty
\* Map when the path has no '?', and otherwise what it returns for the text
\* after that first '?' alone, whatever precedes it.
C21_FirstQuestionMark ==
  /\ (upc = "done" /\ ufn = "getPathWithoutQuery") =>
       uret.path = (IF HasMark(uarg) THEN BeforeMark(uarg) ELSE uarg)
  /\ (upc = "done" /\ ufn = "getQueryParams") =>
       IF HasMark(uarg)
       THEN uret = SetPairs(Split(AfterMark(uarg), "&"), 1, <<>>)
       ELSE uret = [threw |-> FALSE, params |-> <<>>]

\* "/p?c?d&a=1" was cut at its first '?': the path is "/p".
C21_Witness ==
  /\ upc = "done" /\ ufn = "getPathWithoutQuery"
  /\ uarg = <<"/","p","?","c","?","d","&","a","=","1">>
  /\ uret.path = <<"/","p">>

\* ------------------------------------------------------------------ C22
FormatDone == ufn = "formatQueryResult" /\ upc = "done"

\* The number a text of decimal digits denotes.
RECURSIVE DecimalValue(_)
DecimalValue(s) ==
  IF s = <<>> THEN 0
  ELSE 10 * DecimalValue(SubSeq(s, 1, Len(s) - 1))
       + (CHOOSE d \in 0..9 : DigitChars[d + 1] = s[Len(s)])

IsDecimal(s) ==
  /\ s # <<>>
  /\ \A k \in 1..Len(s) : s[k] \in Digits
  /\ Len(s) > 1 => s[1] # "0"

\* The parts of a formatted text: its first line, the line after the blank
\* line that follows it, and what comes after that line's end.
FormatParts(text) ==
  LET e1 == IndexOf(text, "\n", 1)
      e3 == IndexOf(text, "\n", e1 + 2)
  IN  [head   |-> SubSeq(text, 1, e1 - 1),
       second |-> SubSeq(text, e1 + 1, e1 + 1),
       status |-> SubSeq(text, e1 + 2, e3 - 1),
       rest   |-> SubSeq(text, e3 + 1, Len(text)),
       ok     |-> e1 > 0 /\ e3 > 0]

\* error is set: the result carries an error message (an empty message is no
\* message).
ErrorSet(result) == result.hasError /\ result.error # <<>>

StatusFields(result, words) ==
  /\ Len(words) >= 4
  /\ words[1] = <<"#">>
  /\ words[2] \in {<<CheckMark>>, <<CrossMark>>}
  /\ words[2] = <<CheckMark>> <=> result.success
  /\ IsDecimal(words[3]) /\ DecimalValue(words[3]) = result.statusCode
  /\ Join(SubSeq(words, 4, Len(words) - 1), " ") = result.statusMessage
  /\ LET w == words[Len(words)]
         n == SubSeq(w, 2, Len(w) - 3)
     IN  /\ Len(w) >= 5
         /\ w[1] = "(" /\ SubSeq(w, Len(w) - 2, Len(w)) = <<"m", "s", ")">>
         /\ IsDecimal(n) /\ DecimalValue(n) = result.durationMs

RenderedBody(text) ==
  LET rest == FormatParts(text).rest IN IF rest = <<>> THEN <<>> ELSE Tail(rest)

\* C23: the body is rendered as the 2-space-indented serialization of json
\* whenever json is present and prettyPrint is true, as the body text as
\* received when json is present and prettyPrint is false, and as the
\* response text as received when json is absent.
C23_BodyRendering ==
  FormatDone =>
    LET r == uarg.result IN
    RenderedBody(uret) =
      IF r.hasJson /\ uarg.prettyPrint THEN Stringify(r.json, 0) ELSE r.body

\* ------------------------------------------------------------------ C24
\* C24: formatQueryResult returns for every request and every QueryResult
\* (a call of it can always complete), and the text it returns is not empty:
\* for a success, a non-2xx answer and an error, with and without a body.
C24_AlwaysRenders ==
  /\ (ufn = "formatQueryResult" /\ upc = "call") => ENABLED CallFormatQueryResult
  /\ FormatDone => uret # <<>>

\* An error result, which has no body, has been formatted.
C24_Witness ==
  /\ FormatDone
  /\ uarg.result.hasError /\ uarg.result.body = <<>>
  /\ uarg.result.error = <<"E","C","O","N","N","R","E","F","U","S","E","D">>
  /\ uret = <<"#"," ","P","O","S","T"," ","/","a","\n","\n","#"," ","E","R","R","O","R",":"," ",
              "E","C","O","N","N","R","E","F","U","S","E","D","\n">>

\* ------------------------------------------------------------------ C26
\* The block of each pair of a batch, in the order of the batch: its
\* formatted text as a line, and the empty line that is appended after it.
BlocksOf(pairs, prettyPrint) ==
  [k \in 1..Len(pairs) |->
     formatQueryResult(pairs[k].request, pairs[k].result, prettyPrint) \o <<"\n", "\n">>]

RuleLine == [k \in 1..RuleWidth |-> RuleChar] \o <<"\n">>

\* C26: showResults adds to the panel one block per request/result pair, in
\* input order, each block ending with the empty line that separates it from
\* the next; executeAllRequests leaves in the panel one block per pair, in
\* input order, with one rule line between consecutive blocks and none before
\* the first or after the last. An empty batch renders nothing: the panel is
\* as it was.
C26_BatchDisplay ==
  /\ (ufn = "showResults" /\ upc = "done") =>
       lastOutput = uarg.panel \o JoinText(BlocksOf(uarg.results, uarg.prettyPrint), <<>>)
  /\ (ufn = "executeAllRequests" /\ upc = "done" /\ uarg.ready) =>
       lastOutput = IF uarg.results = <<>> THEN uarg.panel
                    ELSE JoinText(BlocksOf(uarg.results, TRUE), RuleLine)
  /\ (ufn \in {"showResults", "executeAllRequests"} /\ upc = "done" /\ uarg.results = <<>>) =>
       lastOutput = uarg.panel

\* executeAllRequests has shown a batch of two different entries: the rule
\* line stands between the two blocks and the panel ends with the second.
C26_Witness ==
  /\ ufn = "executeAllRequests" /\ upc = "done" /\ uarg.ready
  /\ Len(uarg.results) = 2
  /\ uarg.results[1].result.statusCode = 200
  /\ uarg.results[2].result.hasError
  /\ \E k \in 1..Len(lastOutput) :
       /\ SubSeq(lastOutput, k, k + RuleWidth) = RuleLine
       /\ SubSeq(lastOutput, 1, k - 1) = BlocksOf(uarg.results, TRUE)[1]
       /\ SubSeq(lastOutput, k + RuleWidth + 1, Len(lastOutput)) = BlocksOf(uarg.results, TRUE)[2]

\* ------------------------------------------------------------------ C27
AuthDone == ufn = "getAuthHeaders" /\ upc = "done"

\* getAuthHeaders has returned the headers of a signed request.
IamSigned == AuthDone /\ uarg.options.authType = "aws-iam" /\ ~uret.threw

\* C27: in IAM mode the auth headers come from a call of the signer with the
\* method, the absolute URL and the body of the request.
C27_SignerGetsMethodUrlBody ==
  IamSigned =>
    /\ uret.signed # Null
    /\ uret.signed.method = MethodText(uarg.method)
    /\ uret.signed.url = uarg.url
    /\ uret.signed.body = uarg.body

\* ------------------------------------------------------------------ C28
\* C28: in IAM mode the signer's credentials come from the explicit
\* access-key/secret pair when both are present, otherwise from the named
\* profile when one is set, otherwise from the default credential chain.
C28_CredentialPriority ==
  IamSigned =>
    LET o == uarg.options
        c == uret.signed.signer.credentials
    IN  IF o.accessKeyId # <<>> /\ o.secretAccessKey # <<>>
        THEN c.kind = "static" /\ c.accessKeyId = o.accessKeyId
             /\ c.secretAccessKey = o.secretAccessKey
        ELSE IF o.awsProfile # <<>>
        THEN c.kind = "fromIni" /\ c.profile = o.awsProfile
        ELSE c.kind = "defaultProvider"

\* A request was signed for a connection that has both a profile and an
\* explicit pair: the pair is used.
C28_Witness ==
  /\ IamSigned
  /\ uarg.options.awsProfile = <<"d","e","v">>
  /\ uarg.options.accessKeyId = <<"A","K">> /\ uarg.options.secretAccessKey = <<"S","K">>
  /\ uret.signed.signer.credentials.kind = "static"

\* ------------------------------------------------------------------ C30
\* The value of a base64 digit.
Base64Value(c) == (CHOOSE k \in 1..Len(Base64Chars) : Base64Chars[k] = c) - 1

IsBase64Digit(c) == \E k \in 1..Len(Base64Chars) : Base64Chars[k] = c

\* A text is well-formed base64: groups of four digits, the last group
\* possibly ending with one or two '=', the unused bits before them zero.
RECURSIVE WellFormedBase64(_)
WellFormedBase64(s) ==
  \/ s = <<>>
  \/ /\ Len(s) >= 4
     /\ IsBase64Digit(s[1]) /\ IsBase64Digit(s[2])
     /\ \/ /\ IsBase64Digit(s[3]) /\ IsBase64Digit(s[4])
           /\ WellFormedBase64(SubSeq(s, 5, Len(s)))
        \/ /\ Len(s) = 4 /\ IsBase64Digit(s[3]) /\ s[4] = "="
           /\ Base64Value(s[3]) % 4 = 0
        \/ /\ Len(s) = 4 /\ s[3] = "=" /\ s[4] = "="
           /\ Base64Value(s[2]) % 16 = 0

\* The bytes a well-formed base64 text stands for.
RECURSIVE Base64Bytes(_)
Base64Bytes(s) ==
  IF s = <<>> THEN <<>>
  ELSE LET b1 == Base64Value(s[1]) * 4 + Base64Value(s[2]) \div 16 IN
       IF s[3] = "=" THEN <<b1>>
       ELSE LET b2 == (Base64Value(s[2]) % 16) * 16 + Base64Value(s[3]) \div 4 IN
            IF s[4] = "=" THEN <<b1, b2>>
            ELSE <<b1, b2, (Base64Value(s[3]) % 4) * 64 + Base64Value(s[4])>>
                 \o Base64Bytes(SubSeq(s, 5, Len(s)))

\* getAuthHeaders has returned the headers of a Basic connection.
BasicReturned == AuthDone /\ uarg.options.authType = "basic" /\ ~uret.threw

\* C30: in Basic mode the headers returned have exactly one entry, named
\* Authorization; its value is "Basic " followed by a well-formed base64 text
\* that stands for the bytes of username, ':' and password.
C30_BasicHeader ==
  BasicReturned =>
    LET text == uarg.options.username \o <<":">> \o uarg.options.password
        v    == uret.headers[1].value
        enc  == SubSeq(v, 7, Len(v))
    IN  /\ Len(uret.headers) = 1
        /\ uret.headers[1].key = "Authorization"
        /\ SubSeq(v, 1, 6) = <<"B","a","s","i","c"," ">>
        /\ WellFormedBase64(enc)
        /\ Base64Bytes(enc) = [k \in 1..Len(text) |-> ByteOf(text[k])]

\* The headers for user name "user" and password "pass" have been returned.
C30_Witness ==
  /\ BasicReturned
  /\ uarg.options.username = <<"u","s","e","r">>
  /\ uarg.options.password = <<"p","a","s","s">>
  /\ uret.headers[1].value =
       <<"B","a","s","i","c"," ","d","X","N","l","c","j","p","w","Y","X","N","z">>

\* ------------------------------------------------------------------ C29
HeaderKeys(hs) == {hs[n].key : n \in 1..Len(hs)}

HasHeader(hs, key, value) == \E n \in 1..Len(hs) : hs[n].key = key /\ hs[n].value = value

\* The headers of a request have been built.
HeadersBuilt == ufn = "requestHeaders" /\ upc = "done" /\ ~uret.threw

\* C29: the headers sent with a request hold one entry per name; every
\* resolved auth header is among them with its value; Content-Type and Accept
\* are application/json unless an auth header of that name says otherwise;
\* and there are no other headers.
C29_MergedHeaders ==
  HeadersBuilt =>
    LET hs == uret.headers
        au == uret.auth
    IN  /\ \A m, n \in 1..Len(hs) : hs[m].key = hs[n].key => m = n
        /\ \A n \in 1..Len(au) : HasHeader(hs, au[n].key, au[n].value)
        /\ \A key \in {"Content-Type", "Accept"} \ HeaderKeys(au) :
             HasHeader(hs, key, <<"application/json">>)
        /\ HeaderKeys(hs) = HeaderKeys(au) \cup {"Content-Type", "Accept"}

\* The headers of a signed request, which has a Content-Type of its own, have
\* been merged: Content-Type appears once, next to Accept and authorization.
C29_Witness ==
  /\ HeadersBuilt
  /\ uarg.options.authType = "aws-iam"
  /\ "Content-Type" \in HeaderKeys(uret.auth)
  /\ Len(uret.headers) = Len(uret.auth) + 1
  /\ HasHeader(uret.headers, "Accept", <<"application/json">>)
  /\ "authorization" \in HeaderKeys(uret.headers)

\* ------------------------------------------------------------------ C31
UrlBuilt == ufn = "buildRequestUrl" /\ upc = "done"

EndsWithSlash(s) == s # <<>> /\ s[Len(s)] = "/"

\* C31: the URL built from base and path is base without its last character
\* when that is '/', followed by '/' when path does not start with one,
\* followed by path, so a query string in path is at the end of the URL as it
\* was written. Appending '/' to a base that has none at its end, or putting
\* '/' before a path that does not start with one, gives the same URL.
C31_BuildRequestUrl ==
  UrlBuilt =>
    LET base == uarg.base
        path == uarg.path
        keep == IF EndsWithSlash(base) THEN Len(base) - 1 ELSE Len(base)
        lead == IF path # <<>> /\ path[1] = "/" THEN 0 ELSE 1
    IN  /\ Len(uret) = keep + lead + Len(path)
        /\ SubSeq(uret, 1, keep) = SubSeq(base, 1, keep)
        /\ lead = 1 => uret[keep + 1] = "/"
        /\ SubSeq(uret, keep + lead + 1, Len(uret)) = path
        /\ ~EndsWithSlash(base) => buildRequestUrl(base \o <<"/">>, path) = uret
        /\ lead = 1 => buildRequestUrl(base, <<"/">> \o path) = uret

\* A base ending with '/' and a path with a query string and no leading '/'
\* have been joined.
C31_Witness ==
  /\ UrlBuilt
  /\ uarg.base = UrlHttp \o <<"/">>
  /\ uarg.path = <<"a","?","q","=","/","&","r","=","b","/">>
  /\ uret = UrlHttp \o <<"/","a","?","q","=","/","&","r","=","b","/">>

\* ------------------------------------------------------------------ C32
TestDone == ufn = "testConnection" /\ upc = "done"

\* The JSON answer is an object with a member of that name.
HasMember(result, key) ==
  /\ result.hasJson /\ result.json.t = "object"
  /\ \E n \in 1..Len(result.json.kids) : result.json.kids[n].s = key

IsSlashComment(line) == StartsWith(Trim(line), <<"/","/">>)

\* The text without its // lines.
DeleteSlashComments(text) ==
  JoinNl(SelectSeq(SplitNl(text), LAMBDA l : ~IsSlashComment(l)))

\* C33: a line starting with // is a comment: when the parser has returned,
\* no request body holds such a line, and there are as many parse errors as
\* for the same text without its // lines.
C33_SlashCommentsIgnored ==
  ppc = "done" =>
    /\ \A n \in 1..Len(requests) :
         requests[n].hasBody =>
           \A k \in 1..Len(SplitNl(requests[n].body)) :
             ~IsSlashComment(SplitNl(requests[n].body)[k])
    /\ Len(errors) = Len(parseOsdevFile(DeleteSlashComments(content)).errors)

\* ------------------------------------------------------------------ C34
\* C34: what getLastOutput() returns is at any time the texts appended since
\* the last clear() (or since construction), in call order, each followed by
\* a newline; after clear() it is the empty string.
C34_LastOutput ==
  upc = "panel" =>
    lastOutput = JoinText([k \in 1..Len(appended) |-> appended[k] \o <<"\n">>], <<>>)

\* After a clear, a text and then an info line have been appended.
C34_Witness ==
  /\ upc = "panel" /\ pcalls = 3
  /\ appended = << <<"a">>, <<"#"," ","m">> >>
  /\ lastOutput = <<"a","\n","#"," ","m","\n">>

\* ------------------------------------------------------------------ C35
\* C35: every executeRequest call that has dispatched its request and awaits
\* the outcome is eventually resumed and returns.
C35_CallReturns == (epc = "await") ~> (epc = "ret")

\* ------------------------------------------------------------------ C36
FindDone == ufn = "findRequestAtLine" /\ upc = "done"

\* 0-based numbers of the request lines of a text.
RequestLinesOf(text) ==
  LET ls == SplitNl(text) IN
  {k \in 0..(Len(ls) - 1) : ~isComment(ls[k + 1]) /\ isRequestLine(ls[k + 1])}

\* The requests of a list whose span holds a line.
RequestsAt(reqs, line) ==
  {reqs[n] : n \in {m \in 1..Len(reqs) : reqs[m].startLine <= line /\ line <= reqs[m].endLine}}

\* What C36 says of the returned value, given the request lines at or before
\* the line and the requests whose span holds it.
FoundIsTheOne(starts, holding) ==
  IF starts = {} THEN uret = Null
  ELSE /\ uret # Null
       /\ holding = {uret}
       /\ \E k \in starts : uret.startLine = k /\ \A j \in starts : j <= k

\* C36: for the requests parsed from a text and a line L of it,
\* findRequestAtLine returns null when L is before the first request line
\* (or there is none); otherwise it returns the only request whose span
\* startLine..endLine holds L, which is the one that starts at the last
\* request line at or before L.
C36_FindRequestAtLine ==
  FindDone => FoundIsTheOne({k \in RequestLinesOf(uarg.content) : k <= uarg.line},
                            RequestsAt(parseOsdevFile(uarg.content).requests, uarg.line))

\* The cursor is on the last line of the body of the first of two requests.
C36_Witness ==
  /\ FindDone
  /\ uarg.content = JoinNl(<< <<"G","E","T"," ","/","a">>, <<"{","}">>, <<>>,
                             <<"G","E","T"," ","/","a">> >>)
  /\ uarg.line = 2
  /\ uret # Null /\ uret.startLine = 0 /\ uret.endLine = 2

\* ------------------------------------------------------------------ C37
\* The requests of the command's document whose span holds the cursor line.
RequestsAtCursor == RequestsAt(parseOsdevFile(uarg.content).requests, uarg.line)

\* What C37 says of the command, given those requests.
CurrentRequestDisplay(atCursor) ==
  /\ atCursor = {} => uret = Null /\ upc # "await"
  /\ uret # Null => uret.request \in atCursor
  /\ upc = "done" /\ uret # Null =>
       lastOutput = formatQueryResult(uret.request, uret.result, TRUE) \o <<"\n", "\n">>

\* C37: executeCurrentRequest executes a request only when a span holds the
\* cursor line, and then that request; when it has executed a request and
\* returned, the panel holds the formatted result and an empty line and
\* nothing else: what the panel showed before, the parse errors and the
\* progress line are gone.
C37_CurrentRequestDisplay ==
  ufn = "executeCurrentRequest" => CurrentRequestDisplay(RequestsAtCursor)

\* A request was executed and returned although the document has a parse
\* error and the panel was not empty before.
C37_Witness ==
  /\ ufn = "executeCurrentRequest" /\ upc = "done" /\ uret # Null
  /\ Len(parseOsdevFile(uarg.content).errors) > 0
  /\ uarg.panel # <<>>
  /\ uret.result.success

\* ------------------------------------------------ ConnectionManager: C38..C40
\* No call is awaiting.
ConnQuiet == \A k \in 1..Len(ccalls) : ccalls[k].pc # "await"

\* No call started while another was awaiting.
ConnSequential == \A k \in 1..Len(ccalls) : ccalls[k].alone

StoredIds == {storedConnections[n].id : n \in 1..Len(storedConnections)}

\* The active id when call k had ended, in a run without overlap.
ActiveAfter(k) ==
  IF k = Len(ccalls) THEN activeConnectionId ELSE ccalls[k + 1].was.active

\* The ids of a list in order without one id.
RECURSIVE IdsWithout(_, _)
IdsWithout(conns, id) ==
  IF conns = <<>> THEN <<>>
  ELSE IF Head(conns).id = id THEN IdsWithout(Tail(conns), id)
  ELSE <<Head(conns).id>> \o IdsWithout(Tail(conns), id)

MustThrow(call) ==
  LET index == FindIndex(call.was.connections, call.id) IN
  \/ call.op = "add" /\ validateConnection(call.arg) # <<>>
  \/ call.op \in {"update", "delete"} /\ index = 0
  \/ /\ call.op = "update" /\ index # 0
     /\ validateConnection(Merge(call.was.connections[index], call.arg)) # <<>>

\* The step is a call that throws.
ThrowStep ==
  /\ Len(ccalls') = Len(ccalls) + 1
  /\ ccalls'[Len(ccalls')].pc = "threw"

\* C39: every stored connection passes validateConnection; a call throws
\* exactly when its connection (addConnection), its merged connection
\* (updateConnection) fails validation or its id is not stored
\* (updateConnection, deleteConnection); and a call that throws changes
\* neither the stored list nor the secrets nor the active id.
C39_ValidatedOrUnchanged ==
  /\ [](/\ \A n \in 1..Len(storedConnections) :
              validateConnection(storedConnections[n]) = <<>>
        /\ \A k \in 1..Len(ccalls) : ccalls[k].pc = "threw" <=> MustThrow(ccalls[k]))
  /\ [][ThrowStep => UNCHANGED <<storedConnections, secrets, activeConnectionId>>]_vars

\* A connection with a password is stored and active, and an update of it
\* to a blank name, with a new password, threw.
C39_Witness ==
  /\ Len(ccalls) = 2
  /\ ccalls[1].op = "add" /\ ccalls[1].pc = "done"
  /\ ccalls[2].op = "update" /\ ccalls[2].pc = "threw" /\ ccalls[2].id = 1
  /\ StoredIds = {1} /\ activeConnectionId = 1
  /\ secrets = {[key |-> getPasswordKey(1), value |-> <<"p">>]}

\* ------------------------------------------------------------------ C40
\* C40: when only addConnection was called and every call has ended, two
\* calls of which the second started while the first was awaiting its
\* update of the connections setting have both their connections in the
\* stored list, and exactly one call activated its connection.
C40_OverlappingAddsKept ==
  ConnQuiet /\ (\A k \in 1..Len(ccalls) : ccalls[k].op = "add") =>
    \A k \in 1..Len(ccalls) : \A j \in ccalls[k].during :
      ccalls[j].pc = "done" /\ ccalls[k].pc = "done" =>
        /\ {ccalls[j].id, ccalls[k].id} \subseteq StoredIds
        /\ Cardinality({m \in 1..Len(ccalls) : ccalls[m].activated}) = 1
====
